---- MODULE Spec2Model ----
(***************************************************************************)
(* Model of the SLMS media server (zeroexploit/slms).                      *)
(*                                                                         *)
(* Spec      : the media library (database/databasemanager.rs) over a     *)
(*             small file system, with boot_up, restart and the           *)
(*             ContentDirectory Browse handler (upnp/contentdirectory.rs). *)
(* SpecHttp  : provider/http.rs send_file over bounded requests and files. *)
(***************************************************************************)
EXTENDS Integers, Sequences, FiniteSets, TLC

\* ------------------------------------------------------------------ bounds
\* number of file system modifications the environment performs
MaxFsOps == 1
\* number of times the server process is started
MaxBoots == 2
\* largest ObjectID, StartingIndex and RequestedCount a Control Point sends
MaxObjectId == 2
MaxIndex == 1
MaxCount == 1
\* longest text after "Range: bytes=" and largest file, in bytes
MaxRangeLen == 3
MaxFileLen == 3
\* the read buffer of send_file ([0; 65515]), scaled down so that the files
\* of the model span several reads
BufferLen == 2

\* ------------------------------------------------------- strings and paths
\* A string is a sequence of one-character strings; a path is a sequence of
\* components (the text between two "/").
Ord(c) ==
  CASE c = "." -> 46
    [] c = "a" -> 97
    [] c = "b" -> 98
    [] c = "c" -> 99
    [] c = "d" -> 100
    [] c = "e" -> 101
    [] c = "f" -> 102
    [] c = "h" -> 104
    [] c = "m" -> 109
    [] OTHER -> 0

\* str::cmp : byte-wise lexicographic order; -1 Less, 0 Equal, 1 Greater
RECURSIVE StrCmp(_, _)
StrCmp(s, t) ==
  IF s = <<>> /\ t = <<>> THEN 0
  ELSE IF s = <<>> THEN -1
  ELSE IF t = <<>> THEN 1
  ELSE IF Ord(Head(s)) < Ord(Head(t)) THEN -1
  ELSE IF Ord(Head(s)) > Ord(Head(t)) THEN 1
  ELSE StrCmp(Tail(s), Tail(t))

\* u64::cmp
NumCmp(x, y) == IF x < y THEN -1 ELSE IF x > y THEN 1 ELSE 0

Last(s) == s[Len(s)]

Upper == << "A", "B", "C", "D", "E", "F", "G", "H", "I", "J", "K", "L", "M", "N", "O", "P", "Q", "R", "S", "T", "U", "V", "W", "X", "Y", "Z" >>
Lower == << "a", "b", "c", "d", "e", "f", "g", "h", "i", "j", "k", "l", "m", "n", "o", "p", "q", "r", "s", "t", "u", "v", "w", "x", "y", "z" >>

\* str::to_lowercase
to_lowercase(text) ==
  [i \in 1..Len(text) |->
     IF \E k \in 1..Len(Upper) : Upper[k] = text[i]
     THEN Lower[CHOOSE k \in 1..Len(Upper) : Upper[k] = text[i]]
     ELSE text[i]]

Digit == << "0", "1", "2", "3", "4", "5", "6", "7", "8", "9" >>

DigitValue(c) == CHOOSE d \in 0..9 : Digit[d + 1] = c

IsDigit(c) == \E d \in 1..Len(Digit) : Digit[d] = c

\* str::parse::<u64> : -1 for Err (empty text or a character that is no digit)
RECURSIVE ParseFrom(_, _)
ParseFrom(text, acc) ==
  IF text = << >> THEN acc
  ELSE IF ~IsDigit(Head(text)) THEN -1
  ELSE ParseFrom(Tail(text), acc * 10 + DigitValue(Head(text)))

ParseU64(text) == IF text = << >> THEN -1 ELSE ParseFrom(text, 0)

\* u64::to_string
RECURSIVE FormatU64(_)
FormatU64(n) ==
  IF n < 10 THEN << Digit[n + 1] >>
  ELSE FormatU64(n \div 10) \o << Digit[(n % 10) + 1] >>

\* the shared directory of the configuration (share_folders) and what the
\* environment may put below it
ShareDir == << <<"m">> >>
SubDir   == << <<"m">>, <<"d">> >>
FileA    == << <<"m">>, <<"a", ".", "m">> >>
FileB    == << <<"m">>, <<"b", ".", "m">> >>
FileC    == << <<"m">>, <<"d">>, <<"c", ".", "m">> >>
\* a hidden directory with a file in it, and a hidden file
HiddenDir == << <<"m">>, <<".", "h">> >>
FileE     == << <<"m">>, <<".", "h">>, <<"e", ".", "m">> >>
FileDot   == << <<"m">>, <<".", "f", ".", "m">> >>

share_folders == << ShareDir >>

Dirs  == {ShareDir, SubDir, HiddenDir}
Files == {FileA, FileB, FileC, FileE, FileDot}
Nodes == Dirs \cup Files

ParentOf(p) == SubSeq(p, 1, Len(p) - 1)

\* the order in which read_dir lists the entries of a directory
DirListing(p) ==
  IF p = ShareDir THEN << SubDir, HiddenDir, FileB, FileDot, FileA >>
  ELSE IF p = SubDir THEN << FileC >>
  ELSE IF p = HiddenDir THEN << FileE >>
  ELSE << >>

\* the content of the share when the model starts
Layouts == { {ShareDir, FileA},
             {ShareDir, FileA, SubDir},
             {ShareDir, FileA, FileB, SubDir, FileC},
             {ShareDir, FileA, HiddenDir, FileE, FileDot} }

\* what ffprobe reports for the content of a file:
\*   "audio", "video", "image" : format and streams of that kind
\*   "data"  : format and streams present, but no stream of a known type
\*   "junk"  : no format / streams section at all
Kinds == {"audio", "video", "image", "data", "junk"}

\* the contents the environment writes
WriteKinds == {"audio", "data", "junk"}

\* the size in bytes of a file after the environment has written it, size
\* being its size before (0 when it did not exist): every write changes it
WrittenSize(size) == IF size = 1 THEN 2 ELSE 1

ProbeTracks(kind) ==
  CASE kind = "audio" -> << "AUDIO" >>
    [] kind = "video" -> << "VIDEO", "AUDIO" >>
    [] kind = "image" -> << "IMAGE" >>
    [] OTHER -> << >>

ObjectIds == 0..MaxObjectId

\* the SortCriteria values a Control Point sends
Criteria == { << >>, << "-dc:date", "-dc:title" >> }

\* ---------------------------------------------------------------- state
VARIABLES
  now,            \* environment: wall clock in seconds
  fsExists,       \* environment: the set of paths that exist
  fsMtime,        \* environment: path -> modification time (0 when absent)
  fsKind,         \* environment: file -> what ffprobe reports for it
  fsSize,         \* environment: file -> its size in bytes (0 when absent)
  fsOps,          \* environment: modifications performed so far
  db_file,        \* the XML index at DatabaseManager.path
  running,        \* the server process is up (boot_up has returned)
  boots,          \* number of process starts so far
  media_folders,  \* DatabaseManager.media_folders
  media_item,     \* DatabaseManager.media_item
  latest_id,      \* DatabaseManager.latest_id
  response,       \* the answer to the Browse request being served
  http_file,      \* http: the file at the path given to send_file
  http_request,   \* http: the request given to send_file
  http_sent,      \* http: what send_file wrote to the stream
  mutex,          \* DB_MANAGER: the Mutex around the library
  workers,        \* the worker thread of each accepted connection
  conn,           \* handle_connection at work on one connection
  metadata,       \* the answer to the BrowseMetadata request being served
  ssdp,           \* SSDPServer: its two threads and the packets on the wire
  run             \* MediaServer::run : how far it has come, what made it return

fsVars == << now, fsExists, fsMtime, fsKind, fsSize, fsOps >>
dbVars == << db_file, running, boots, media_folders, media_item, latest_id >>
httpVars == << http_file, http_request, http_sent >>
srvVars == << mutex, workers, conn, metadata, ssdp, run >>
vars == << now, fsExists, fsMtime, fsKind, fsSize, fsOps, db_file, running, boots,
           media_folders, media_item, latest_id, response,
           http_file, http_request, http_sent, mutex, workers, conn, metadata, ssdp, run >>

\* MediaServer::run outside the specifications that follow it step by step
NoRun == [pc |-> "none", failed |-> "none"]

\* MediaServer::run in its accept loop
Accepting == [pc |-> "incoming", failed |-> "none"]

\* the DatabaseManager fields the library operations read and write
Db == [media_folders |-> media_folders, media_item |-> media_item,
       latest_id |-> latest_id]

\* DatabaseManager::new / load
NewDb == [media_folders |-> << >>, media_item |-> << >>, latest_id |-> 1]

NoIndex == [present |-> FALSE, folders |-> << >>, items |-> << >>]
NoResponse ==
  [entries |-> << >>, number_returned |-> 0, total_matches |-> 0,
   answered |-> FALSE]
NoMetadata ==
  [object_id |-> 0, entries |-> << >>, number_returned |-> 0, total_matches |-> 0,
   answered |-> FALSE]

\* ---------------------------------------------------- file system queries
does_exist(path) == path \in fsExists

get_last_modified(path) == IF path \in fsExists THEN fsMtime[path] ELSE 0

is_dir(path) == path \in Dirs

\* fs::read_dir : Err (here the empty listing) when path is no directory
read_dir(path) == SelectSeq(DirListing(path), LAMBDA e : e \in fsExists)

get_elements(path) == Len(read_dir(path))

\* ------------------------------------------------------------ mediaparser
\* Path::extension : text after the last "." of the final component, none
\* when there is no "." or the only "." is the first character
RECURSIVE LastDot(_, _)
LastDot(name, i) ==
  IF i = 0 THEN 0 ELSE IF name[i] = "." THEN i ELSE LastDot(name, i - 1)

HasExtension(name) == LastDot(name, Len(name)) > 1

Extension(name) == SubSeq(name, LastDot(name, Len(name)) + 1, Len(name))

\* Container::new
NewContainer == [id |-> 0, name |-> "", file_extensions |-> << >>]

NewItem ==
  [id |-> 0, parent_id |-> 0, last_modified |-> 0, file_path |-> << >>,
   file_size |-> 0, file_name |-> << >>, file_extension |-> << >>, media_type |-> "UNKNOWN",
   media_tracks |-> << >>, format_container |-> NewContainer]

\* faulty variant: the size of the target is not refreshed
format_size_Kept(path, target) == target.file_size

\* parse_file : the "size" attribute of the format section ("<bytes> byte",
\* ffprobe being run with -unit), parsed up to the blank
format_size(path, target) == fsSize[path]

\* parse_file(path, target) : the bool it returns and the target afterwards
parse_file(path, target) ==
  LET kind == IF path \in fsExists /\ path \in Files THEN fsKind[path] ELSE "junk"
      probed == ProbeTracks(kind)
      has_audio == \E i \in 1..Len(probed) : probed[i] = "AUDIO"
      has_video == \E i \in 1..Len(probed) : probed[i] = "VIDEO"
      name == Last(path)
      t1 == [target EXCEPT !.file_path = path,
                           !.file_size = format_size(path, target),
                           !.format_container =
                              [@ EXCEPT !.name = kind,
                                        !.file_extensions =
                                           Append(@, to_lowercase(Extension(name)))],
                           !.media_tracks = @ \o probed]
      t2 == [t1 EXCEPT !.last_modified = fsMtime[path]]
      ext == Extension(name)
      t3 == [t2 EXCEPT !.file_extension = ext,
                       !.file_name = SubSeq(name, 1, Len(name) - Len(ext) - 1)]
  IN IF kind = "junk" THEN [ok |-> FALSE, item |-> target]
     ELSE IF ~HasExtension(name) THEN [ok |-> FALSE, item |-> t2]
     ELSE IF has_video THEN [ok |-> TRUE, item |-> [t3 EXCEPT !.media_type = "VIDEO"]]
     ELSE IF has_audio THEN [ok |-> TRUE, item |-> [t3 EXCEPT !.media_type = "AUDIO"]]
     ELSE IF Len(t3.media_tracks) > 0
          THEN [ok |-> TRUE, item |-> [t3 EXCEPT !.media_type = "PICTURE"]]
     ELSE [ok |-> FALSE, item |-> [t3 EXCEPT !.media_type = "UNKNOWN"]]

\* -------------------------------------------------------- DatabaseManager
\* index of the first TRUE of a sequence of booleans, 0 when there is none
\* (the position at which a "for .. in" loop over a Vec returns)
FirstIndex(hits) ==
  IF \E i \in 1..Len(hits) : hits[i]
  THEN CHOOSE i \in 1..Len(hits) : hits[i] /\ \A j \in 1..(i - 1) : ~hits[j]
  ELSE 0

\* faulty variant: no Folder is ever found by its path
get_folder_from_path_Missing(db, path) == 0

get_folder_from_path(db, path) ==
  FirstIndex([i \in 1..Len(db.media_folders) |-> db.media_folders[i].path = path])

\* faulty variant: no Item is ever found by its path
get_item_from_path_Missing(db, path) == 0

get_item_from_path(db, path) ==
  FirstIndex([i \in 1..Len(db.media_item) |-> db.media_item[i].file_path = path])

set_latest_id(db, id) ==
  IF id > db.latest_id THEN [db EXCEPT !.latest_id = id] ELSE db

\* get_next_id hands out latest_id and increments it
get_next_id(db) == [id |-> db.latest_id, db |-> [db EXCEPT !.latest_id = @ + 1]]

\* faulty variant: no name counts as hidden
IsHidden_Never(name) == FALSE

\* parse_folder : &title[..1] == "." / &file_name[..1] == "."
IsHidden(name) == Len(name) > 0 /\ name[1] = "."

\* the file branch of the directory walk of parse_folder
parse_folder_file(db, ele, id) ==
  LET idx == get_item_from_path(db, ele)
  IN IF idx # 0
     THEN IF get_last_modified(ele) > db.media_item[idx].last_modified
          THEN [db EXCEPT !.media_item[idx] = parse_file(ele, @).item]
          ELSE db
     ELSE LET r == parse_file(ele, NewItem)
              n == get_next_id(db)
              item == [r.item EXCEPT !.id = n.id, !.parent_id = id]
          IN IF ~r.ok THEN db
             ELSE IF Len(item.file_name) > 0 /\ ~IsHidden(item.file_name)
                  THEN [n.db EXCEPT !.media_item = Append(@, item)]
                  ELSE n.db

RECURSIVE parse_folder(_, _, _)
RECURSIVE parse_folder_entries(_, _, _)

\* the loop over read_dir(path) of parse_folder
parse_folder_entries(db, entries, id) ==
  IF entries = << >> THEN db
  ELSE LET ele == Head(entries)
           db1 == IF is_dir(ele) THEN parse_folder(db, ele, id)
                  ELSE parse_folder_file(db, ele, id)
       IN parse_folder_entries(db1, Tail(entries), id)

parse_folder(db, path, parent_id) ==
  IF path = << >> \/ ~does_exist(path) THEN db
  ELSE
    LET idx == get_folder_from_path(db, path)
        is_new == idx = 0
        modified == ~is_new /\ get_last_modified(path) > db.media_folders[idx].last_modified
        db1 == IF modified
               THEN [db EXCEPT !.media_folders[idx].last_modified = get_last_modified(path),
                               !.media_folders[idx].element_count = get_elements(path)]
               ELSE db
        n == get_next_id(db1)
        folder == [id |-> n.id, parent_id |-> parent_id, title |-> Last(path),
                   path |-> path, element_count |-> get_elements(path),
                   last_modified |-> get_last_modified(path)]
        id == IF is_new THEN n.id
              ELSE IF modified THEN db.media_folders[idx].id
              ELSE 0
    IN IF is_new /\ IsHidden(folder.title) THEN n.db
       ELSE LET db2 == IF is_new
                       THEN [n.db EXCEPT !.media_folders = Append(@, folder)]
                       ELSE db1
            IN parse_folder_entries(db2, read_dir(path), id)

\* MediaType::to_string / MediaType::from_string
media_type_to_string(type) ==
  CASE type = "AUDIO" -> << "1" >>
    [] type = "PICTURE" -> << "2" >>
    [] type = "VIDEO" -> << "3" >>
    [] OTHER -> << "0" >>

media_type_from_string(content) ==
  CASE content = << "1" >> -> "AUDIO"
    [] content = << "2" >> -> "PICTURE"
    [] content = << "3" >> -> "VIDEO"
    [] OTHER -> "UNKNOWN"

\* StreamType::to_string / StreamType::from_string
stream_type_to_string(type) ==
  CASE type = "AUDIO" -> << "1" >>
    [] type = "VIDEO" -> << "2" >>
    [] type = "IMAGE" -> << "3" >>
    [] type = "SUBTITLE" -> << "4" >>
    [] OTHER -> << "0" >>

stream_type_from_string(content) ==
  CASE content = << "1" >> -> "AUDIO"
    [] content = << "2" >> -> "VIDEO"
    [] content = << "3" >> -> "IMAGE"
    [] content = << "4" >> -> "SUBTITLE"
    [] OTHER -> "UNKNOWN"

\* Folder::get_name_value_pairs : the attributes of a <folder> element
folder_entry(f) ==
  [id |-> FormatU64(f.id), parentId |-> FormatU64(f.parent_id),
   title |-> f.title, path |-> f.path, count |-> FormatU64(f.element_count),
   lastModified |-> FormatU64(f.last_modified)]

\* MetaData::get_name_value_pairs : the <meta> elements of an <item>
meta_entries(it) ==
  (IF Len(it.file_name) > 0
   THEN << [name |-> "fileName", value |-> it.file_name] >> ELSE << >>)
  \o (IF Len(it.file_extension) > 0
      THEN << [name |-> "fileExtension", value |-> it.file_extension] >> ELSE << >>)

\* Item::get_name_value_pairs and what save_database writes inside an <item>
\* element: its <stream> and <meta> elements
item_entry(it) ==
  [id |-> FormatU64(it.id), parentId |-> FormatU64(it.parent_id),
   lastModified |-> FormatU64(it.last_modified), path |-> it.file_path,
   type |-> media_type_to_string(it.media_type), size |-> FormatU64(it.file_size),
   containerId |-> FormatU64(it.format_container.id),
   streams |-> [i \in 1..Len(it.media_tracks) |->
                  [type |-> stream_type_to_string(it.media_tracks[i])]],
   meta |-> meta_entries(it)]

\* faulty variant: everything in the library is written, check_changed or not
save_database_Unchecked(db, check_changed) ==
  [present |-> TRUE,
   folders |-> [i \in 1..Len(db.media_folders) |-> folder_entry(db.media_folders[i])],
   items |-> [i \in 1..Len(db.media_item) |-> item_entry(db.media_item[i])]]

\* save_database(check_changed) : the <folder> and <item> elements written
save_database(db, check_changed) ==
  LET folders == SelectSeq(db.media_folders,
                   LAMBDA f : ~check_changed \/ does_exist(f.path))
      items == SelectSeq(db.media_item,
                 LAMBDA it : ~check_changed
                    \/ (does_exist(it.file_path)
                        /\ ~(get_last_modified(it.file_path) > it.last_modified)))
  IN [present |-> TRUE,
      folders |-> [i \in 1..Len(folders) |-> folder_entry(folders[i])],
      items |-> [i \in 1..Len(items) |-> item_entry(items[i])]]

\* faulty variant: an attribute that does not parse is read as 0
folder_from_entry_Lenient(e) ==
  LET Number(text) == IF ParseU64(text) < 0 THEN 0 ELSE ParseU64(text)
  IN [ok |-> TRUE,
      folder |-> [id |-> Number(e.id), parent_id |-> Number(e.parentId),
                  title |-> e.title, path |-> e.path,
                  element_count |-> Number(e.count),
                  last_modified |-> Number(e.lastModified)]]

\* load_database : the Folder built from a <folder> element; not ok when
\* count, id, parentId or lastModified does not parse (continue)
folder_from_entry(e) ==
  LET count == ParseU64(e.count)
      id == ParseU64(e.id)
      parent_id == ParseU64(e.parentId)
      last_modified == ParseU64(e.lastModified)
  IN [ok |-> count >= 0 /\ id >= 0 /\ parent_id >= 0 /\ last_modified >= 0,
      folder |-> [id |-> id, parent_id |-> parent_id, title |-> e.title,
                  path |-> e.path, element_count |-> count,
                  last_modified |-> last_modified]]

\* Item::insert_meta_data over the <meta> elements, in order
RECURSIVE insert_meta(_, _)
insert_meta(it, meta) ==
  IF meta = << >> THEN it
  ELSE LET m == Head(meta)
           it1 == IF m.name = "fileName" THEN [it EXCEPT !.file_name = m.value]
                  ELSE IF m.name = "fileExtension"
                  THEN [it EXCEPT !.file_extension = m.value]
                  ELSE it
       IN insert_meta(it1, Tail(meta))

\* load_database : the Item built from an <item> element; not ok when size,
\* id, lastModified or parentId does not parse (continue). containerId is not
\* read: format_container stays what Item::new() made it.
item_from_entry(e) ==
  LET size == ParseU64(e.size)
      id == ParseU64(e.id)
      last_modified == ParseU64(e.lastModified)
      parent_id == ParseU64(e.parentId)
      it == [NewItem EXCEPT
               !.file_path = e.path, !.file_size = size, !.id = id,
               !.last_modified = last_modified,
               !.media_type = media_type_from_string(e.type),
               !.parent_id = parent_id,
               !.media_tracks = [i \in 1..Len(e.streams) |->
                                   stream_type_from_string(e.streams[i].type)]]
  IN [ok |-> size >= 0 /\ id >= 0 /\ last_modified >= 0 /\ parent_id >= 0,
      item |-> insert_meta(it, e.meta)]

\* faulty variant: a folder whose directory changed since it was recorded is not
\* loaded (what the comment above load_database describes)
load_folder_SkipChanged(db, e) ==
  LET r == folder_from_entry(e)
      f == r.folder
      db1 == set_latest_id(db, f.id)
  IN IF ~r.ok THEN db
     ELSE IF does_exist(f.path) /\ get_last_modified(f.path) <= f.last_modified
     THEN [db1 EXCEPT !.media_folders = Append(@, f)]
     ELSE db1

\* load_database : one <folder> element
load_folder(db, e) ==
  LET r == folder_from_entry(e)
      f == r.folder
      db1 == set_latest_id(db, f.id)
  IN IF ~r.ok THEN db
     ELSE IF does_exist(f.path)
     THEN [db1 EXCEPT !.media_folders = Append(@, f)]
     ELSE db1

\* load_database : one <item> element
load_item(db, e) ==
  LET r == item_from_entry(e)
      it == r.item
      db1 == set_latest_id(db, it.id)
  IN IF ~r.ok THEN db
     ELSE IF does_exist(it.file_path)
     THEN [db1 EXCEPT !.media_item = Append(@, it)]
     ELSE db1

\* load_database : the loop over the children of <root>, which save_database
\* writes as all folders followed by all items
RECURSIVE load_folders(_, _)
load_folders(db, entries) ==
  IF entries = << >> THEN db
  ELSE load_folders(load_folder(db, Head(entries)), Tail(entries))

RECURSIVE load_items(_, _)
load_items(db, entries) ==
  IF entries = << >> THEN db
  ELSE load_items(load_item(db, Head(entries)), Tail(entries))

load_database(db, index) ==
  IF ~index.present THEN db
  ELSE load_items(load_folders(db, index.folders), index.items)

RECURSIVE parse_shares(_, _)
parse_shares(db, shares) ==
  IF shares = << >> THEN db
  ELSE parse_shares(parse_folder(db, Head(shares), 0), Tail(shares))

\* boot_up : load_database, parse_folder of every share, save_database(true)
boot_up(db, index) ==
  LET loaded == load_database(db, index)
      parsed == parse_shares(loaded, share_folders)
  IN [db |-> parsed, index |-> save_database(parsed, TRUE)]

\* get_folder_from_parent : re-parse the parent when its directory changed,
\* then the folders whose parent_id is parent_id
get_folder_from_parent(db, parent_id) ==
  LET idx == FirstIndex([i \in 1..Len(db.media_folders) |-> db.media_folders[i].id = parent_id])
      db1 == IF idx # 0
                /\ db.media_folders[idx].last_modified
                     < get_last_modified(db.media_folders[idx].path)
             THEN parse_folder(db, db.media_folders[idx].path, parent_id)
             ELSE db
  IN [db |-> db1,
      res |-> SelectSeq(db1.media_folders, LAMBDA f : f.parent_id = parent_id)]

\* faulty variant: "changed" also when the recorded time equals the one on disk
ItemChanged_OrEqual(item) ==
  item.last_modified <= get_last_modified(item.file_path)

\* get_items_from_parent : "Check if Item has changed"
ItemChanged(item) ==
  item.last_modified < get_last_modified(item.file_path)

\* get_items_from_parent : the loop over media_item from position i on
RECURSIVE get_items_loop(_, _, _, _)
get_items_loop(db, parent_id, i, res) ==
  IF i > Len(db.media_item) THEN [db |-> db, res |-> res]
  ELSE
    LET item == db.media_item[i]
    IN IF item.parent_id # parent_id
       THEN get_items_loop(db, parent_id, i + 1, res)
       ELSE IF ItemChanged(item)
       THEN IF ~does_exist(item.file_path)
            THEN get_items_loop(db, parent_id, i + 1, res)
            ELSE LET r == parse_file(item.file_path, item)
                     db1 == [db EXCEPT !.media_item[i] = r.item]
                 IN IF ~r.ok
                    THEN get_items_loop(db1, parent_id, i + 1, res)
                    ELSE get_items_loop(db1, parent_id, i + 1, Append(res, r.item))
       ELSE get_items_loop(db, parent_id, i + 1, Append(res, item))

get_items_from_parent(db, parent_id) == get_items_loop(db, parent_id, 1, << >>)

get_folder_direct(db, id) == FirstIndex([i \in 1..Len(db.media_folders) |-> db.media_folders[i].id = id])

get_item_direct(db, id) == FirstIndex([i \in 1..Len(db.media_item) |-> db.media_item[i].id = id])

\* ------------------------------------------------------- ContentDirectory
\* SortCriteria after split(",") ; << >> is the empty criteria string
IsFolder(e) == "title" \in DOMAIN e

Reverse(o) == 0 - o

\* the match on one field of the sort_folders comparator
FolderFieldCmp(field, a, b) ==
  CASE field = "+dc:title" -> StrCmp(a.title, b.title)
    [] field = "+dc:date" -> NumCmp(a.last_modified, b.last_modified)
    [] field = "-dc:title" -> Reverse(StrCmp(a.title, b.title))
    [] field = "-dc:date" -> Reverse(NumCmp(a.last_modified, b.last_modified))
    [] OTHER -> StrCmp(a.title, b.title)

\* the match on one field of the sort_items comparator
ItemFieldCmp(field, a, b) ==
  CASE field = "+dc:title" -> StrCmp(a.file_name, b.file_name)
    [] field = "+dc:date" -> NumCmp(a.last_modified, b.last_modified)
    [] field = "-dc:title" -> Reverse(StrCmp(a.file_name, b.file_name))
    [] field = "-dc:date" -> Reverse(NumCmp(a.last_modified, b.last_modified))
    [] OTHER -> StrCmp(a.file_name, b.file_name)

\* orders.iter().fold(Equal, |acc, field| acc.then_with(..)) ; with the
\* empty criteria string folders compare by title and items by file_name
RECURSIVE EntryCmp(_, _, _)
EntryCmp(criteria, a, b) ==
  IF criteria = << >>
  THEN 0
  ELSE LET o == IF IsFolder(a) THEN FolderFieldCmp(Head(criteria), a, b)
                ELSE ItemFieldCmp(Head(criteria), a, b)
       IN IF o # 0 THEN o ELSE EntryCmp(Tail(criteria), a, b)

SortCmp(criteria, a, b) ==
  IF criteria = << >>
  THEN IF IsFolder(a) THEN StrCmp(a.title, b.title)
       ELSE StrCmp(a.file_name, b.file_name)
  ELSE EntryCmp(criteria, a, b)

\* slice::sort_by is a stable sort: equal elements keep their order
RECURSIVE InsertSorted(_, _, _)
InsertSorted(sorted, x, criteria) ==
  IF sorted = << >> THEN << x >>
  ELSE IF SortCmp(criteria, Head(sorted), x) > 0 THEN << x >> \o sorted
  ELSE << Head(sorted) >> \o InsertSorted(Tail(sorted), x, criteria)

RECURSIVE SortFrom(_, _, _)
SortFrom(sorted, rest, criteria) ==
  IF rest = << >> THEN sorted
  ELSE SortFrom(InsertSorted(sorted, Head(rest), criteria), Tail(rest), criteria)

sort_folders(folders, criteria) == SortFrom(<< >>, folders, criteria)

sort_items(items, criteria) == SortFrom(<< >>, items, criteria)

\* faulty variant: the loop never looks at requested_count
Emitted_Unbounded(seq, from, act_count, requested_count) ==
  SubSeq(seq, from + 1, Len(seq))

\* the elements a "for index in from..seq.len()" loop emits while
\* act_count < requested_count || requested_count == 0
Emitted(seq, from, act_count, requested_count) ==
  LET avail == IF from >= Len(seq) THEN 0 ELSE Len(seq) - from
      room == IF requested_count = 0 THEN avail
              ELSE IF act_count >= requested_count THEN 0
              ELSE requested_count - act_count
      n == IF avail < room THEN avail ELSE room
  IN SubSeq(seq, from + 1, from + n)

\* faulty variant: the item loop starts one entry too late after folders were emitted
ItemIndex_OffByOne(start_index, act_count) ==
  IF act_count > 0 THEN 1 ELSE start_index

\* where the item loop starts once the folder loop has emitted act_count entries
ItemIndex(start_index, act_count) == IF act_count > 0 THEN 0 ELSE start_index

\* ContentDirectory::browse (BrowseDirectChildren), a renderer configuration
\* being loaded: what it returns and the library afterwards. The folders are
\* fetched (and the parent re-parsed) once, before the items.
browse(db, id, start_index, requested_count, criteria) ==
  LET Listing(rf) ==
        LET folders == sort_folders(rf.res, criteria)
            out_folders == Emitted(folders, start_index, 0, requested_count)
            act_count == Len(out_folders)
            ri == get_items_from_parent(rf.db, id)
            items == sort_items(ri.res, criteria)
            item_index == ItemIndex(start_index, act_count)
            out_items == Emitted(items, item_index, act_count, requested_count)
        IN [db |-> ri.db,
            response |-> [entries |-> out_folders \o out_items,
                          number_returned |-> act_count + Len(out_items),
                          total_matches |-> Len(folders) + Len(items),
                          answered |-> TRUE]]
  IN CHOOSE r \in { Listing(rf) : rf \in {get_folder_from_parent(db, id)} } : TRUE

\* faulty variant: one object whatever the ObjectID
browse_metadata_AlwaysOne(db, id) ==
  [object_id |-> id, entries |-> << >>, number_returned |-> 1, total_matches |-> 1,
   answered |-> TRUE]

\* ContentDirectory::browser_direct_child (BrowseMetadata), a renderer
\* configuration being loaded: the object of that id, a Folder before an Item
browse_metadata(db, id) ==
  LET f == get_folder_direct(db, id)
      i == get_item_direct(db, id)
      content == IF f # 0 THEN << db.media_folders[f] >>
                 ELSE IF i # 0 THEN << db.media_item[i] >>
                 ELSE << >>
      result_nb == IF f # 0 \/ i # 0 THEN 1 ELSE 0
  IN [object_id |-> id, entries |-> content, number_returned |-> result_nb,
      total_matches |-> result_nb, answered |-> TRUE]

\* ----------------------------------------------------- provider/http.rs
\* the characters of the text after "Range: bytes="
RangeChars == {"0", "1", "2", "3", "-", "x"}

\* str::find("-") : position of the first "-" counted from 0, -1 for None
FindDash(bytes) ==
  IF \E i \in 1..Len(bytes) : bytes[i] = "-"
  THEN (CHOOSE i \in 1..Len(bytes) :
          bytes[i] = "-" /\ \A j \in 1..(i - 1) : bytes[j] # "-") - 1
  ELSE -1

\* a request: whether it has a "Range: bytes=" header, the text that follows
\* "bytes=" and whether a CRLF ends that line
NoRequest == [range |-> FALSE, bytes |-> << >>, crlf |-> TRUE]

\* the file: what metadata(path) and File::open(path) yield, and its bytes
NoFile == [stat |-> "NotFound", open |-> "NotFound", data |-> << >>]

NothingSent == [headers |-> << >>, content_length |-> 0,
                content_range |-> << >>, body |-> << >>]

\* send_error : a header with the status and Content-Length 0, no content
send_error(status) ==
  [headers |-> << status >>, content_length |-> 0,
   content_range |-> << >>, body |-> << >>]

\* the start and end of the requested range: "start-end" "-end" "start-" "start"
\* ; ok is FALSE where send_file answers 400
parse_range(bytes, file_size) ==
  LET position == FindDash(bytes)
      len == Len(bytes)
  IN IF position = -1
     THEN [ok |-> ParseU64(bytes) # -1,
           bytes_start |-> ParseU64(bytes), bytes_end |-> file_size]
     ELSE IF position = 0
     THEN [ok |-> ParseU64(SubSeq(bytes, 2, len)) # -1,
           bytes_start |-> 0, bytes_end |-> ParseU64(SubSeq(bytes, 2, len))]
     ELSE IF position = len - 1
     THEN [ok |-> ParseU64(SubSeq(bytes, 1, position)) # -1,
           bytes_start |-> ParseU64(SubSeq(bytes, 1, position)),
           bytes_end |-> file_size]
     ELSE [ok |-> ParseU64(SubSeq(bytes, 1, position)) # -1
                    /\ ParseU64(SubSeq(bytes, position + 1, len)) # -1,
           bytes_start |-> ParseU64(SubSeq(bytes, 1, position)),
           bytes_end |-> ParseU64(SubSeq(bytes, position + 1, len))]

\* faulty variant: the transfer is considered complete one buffer too early
EverythingSent_Early(transferred, bytes_end) ==
  transferred + BufferLen >= bytes_end

\* "Abort if everything was sent"
EverythingSent(transferred, bytes_end) == transferred >= bytes_end

\* the loop that copies the file to the stream, the file cursor being at pos
RECURSIVE send_contents(_, _, _, _, _)
send_contents(data, pos, transferred, bytes_end, body) ==
  LET rest == IF pos >= Len(data) THEN 0 ELSE Len(data) - pos
      readed == IF rest < BufferLen THEN rest ELSE BufferLen
      body1 == body \o SubSeq(data, pos + 1, pos + readed)
  IN IF readed = 0 THEN body
     ELSE IF EverythingSent(transferred + readed, bytes_end) THEN body1
     ELSE send_contents(data, pos + readed, transferred + readed, bytes_end, body1)

\* faulty variant: every io::Error is answered as an internal error
error_status_Other(kind) == 500

\* the status of the error header sent for an io::Error
error_status(kind) ==
  CASE kind = "NotFound" -> 404
    [] kind = "PermissionDenied" -> 403
    [] OTHER -> 500

\* send_file from "Send Header" on: the header, then the contents unless the
\* file can not be opened, where an error header follows the first header
send_header_and_contents(file, status, bytes_start, bytes_end, content_range) ==
  [headers |-> IF file.open = "Ok" THEN << status >>
               ELSE << status, error_status(file.open) >>,
   content_length |-> bytes_end - bytes_start,
   content_range |-> content_range,
   body |-> IF file.open = "Ok"
            THEN send_contents(file.data, bytes_start, 0, bytes_end, << >>)
            ELSE << >>]

\* send_file(request, path, ..) : everything written to the stream
send_file(request, file) ==
  LET file_size == Len(file.data)
      r == parse_range(request.bytes, file_size)
  IN IF file.stat # "Ok" THEN send_error(error_status(file.stat))
     ELSE IF ~request.range
     THEN send_header_and_contents(file, 200, 0, file_size, << >>)
     ELSE IF request.bytes = << >> /\ ~request.crlf THEN send_error(400)
     ELSE IF ~request.crlf THEN send_error(400)
     ELSE IF ~r.ok THEN send_error(400)
     ELSE IF r.bytes_start > r.bytes_end \/ r.bytes_end > file_size
     THEN send_error(416)
     ELSE send_header_and_contents(file, 206, r.bytes_start, r.bytes_end,
                                   << r.bytes_start, r.bytes_end, file_size >>)

\* all texts over RangeChars of at most n characters
RECURSIVE Texts(_)
Texts(n) ==
  IF n = 0 THEN { << >> }
  ELSE Texts(n - 1)
         \cup { Append(t, c) : t \in { u \in Texts(n - 1) : Len(u) = n - 1 },
                               c \in RangeChars }

\* the files of at most n bytes; the bytes of a file differ pairwise, so that
\* any two different slices of it differ
Contents(n) == { [i \in 1..k |-> i] : k \in 0..n }

HttpRequests ==
  { NoRequest }
    \cup { [range |-> TRUE, bytes |-> t, crlf |-> c] :
             t \in Texts(MaxRangeLen), c \in BOOLEAN }

IoErrors == {"NotFound", "PermissionDenied", "Other"}

HttpFiles ==
  { [stat |-> "Ok", open |-> o, data |-> d] :
      o \in {"Ok"} \cup IoErrors, d \in Contents(MaxFileLen) }
    \cup { [stat |-> e, open |-> e, data |-> << >>] : e \in IoErrors }

\* ---------------------------------------------------------------- actions
Init ==
  /\ now = 1
  /\ fsExists \in Layouts
  /\ fsMtime = [p \in Nodes |-> IF p \in fsExists THEN 1 ELSE 0]
  /\ fsKind = [p \in Files |-> IF p \notin fsExists THEN "junk"
                                ELSE IF p = FileC THEN "video" ELSE "audio"]
  /\ fsSize = [p \in Files |-> IF p \in fsExists THEN 1 ELSE 0]
  /\ fsOps = 0
  /\ db_file = NoIndex
  /\ running = FALSE
  /\ boots = 0
  /\ media_folders = << >>
  /\ media_item = << >>
  /\ latest_id = 1
  /\ response = NoResponse
  /\ http_file = NoFile
  /\ http_request = NoRequest
  /\ http_sent = NothingSent
  /\ mutex = [holder |-> 0, poisoned |-> FALSE]
  /\ workers = << >>
  /\ conn = << >>
  /\ metadata = NoMetadata
  /\ ssdp = << >>
  /\ run = NoRun

\* MediaServer::run : DB_MANAGER.load(..) then boot_up()
BootUp ==
  /\ ~running
  /\ ~response.answered /\ ~metadata.answered
  /\ boots < MaxBoots
  /\ LET r == boot_up(NewDb, db_file)
     IN /\ media_folders' = r.db.media_folders
        /\ media_item' = r.db.media_item
        /\ latest_id' = r.db.latest_id
        /\ db_file' = r.index
  /\ running' = TRUE
  /\ boots' = boots + 1
  /\ response' = NoResponse
  /\ UNCHANGED fsVars
  /\ UNCHANGED httpVars
  /\ UNCHANGED srvVars

\* the process ends; the library in memory is gone, the index file stays
Shutdown ==
  /\ running
  /\ ~response.answered /\ ~metadata.answered
  /\ running' = FALSE
  /\ media_folders' = << >>
  /\ media_item' = << >>
  /\ latest_id' = 1
  /\ response' = NoResponse
  /\ UNCHANGED << db_file, boots >>
  /\ UNCHANGED fsVars
  /\ UNCHANGED httpVars
  /\ UNCHANGED srvVars

\* the environment acts between two requests
\* mtimes are whole seconds (as_secs): a modification happens either within
\* the second of the previous one or in a later second
Clock == {now, now + 1}

\* environment: a file is created or rewritten
WriteFile ==
  \E f \in Files, k \in WriteKinds, t \in Clock :
    /\ ~response.answered /\ ~metadata.answered
    /\ fsOps < MaxFsOps
    /\ ParentOf(f) \in fsExists
    /\ fsExists' = fsExists \cup {f}
    /\ fsKind' = [fsKind EXCEPT ![f] = k]
    /\ fsSize' = [fsSize EXCEPT ![f] = WrittenSize(@)]
    /\ fsMtime' = IF f \in fsExists
                  THEN [fsMtime EXCEPT ![f] = t]
                  ELSE [fsMtime EXCEPT ![f] = t, ![ParentOf(f)] = t]
    /\ now' = t
    /\ fsOps' = fsOps + 1
    /\ UNCHANGED response
    /\ UNCHANGED dbVars
    /\ UNCHANGED httpVars
    /\ UNCHANGED srvVars

\* environment: a file is deleted
RemoveFile ==
  \E f \in Files, t \in Clock :
    /\ ~response.answered /\ ~metadata.answered
    /\ fsOps < MaxFsOps
    /\ f \in fsExists
    /\ fsExists' = fsExists \ {f}
    /\ fsKind' = [fsKind EXCEPT ![f] = "junk"]
    /\ fsSize' = [fsSize EXCEPT ![f] = 0]
    /\ fsMtime' = [fsMtime EXCEPT ![f] = 0, ![ParentOf(f)] = t]
    /\ now' = t
    /\ fsOps' = fsOps + 1
    /\ UNCHANGED response
    /\ UNCHANGED dbVars
    /\ UNCHANGED httpVars
    /\ UNCHANGED srvVars

\* environment: the sub directory is created
MakeDir ==
  \E t \in Clock :
    /\ ~response.answered /\ ~metadata.answered
    /\ fsOps < MaxFsOps
    /\ SubDir \notin fsExists
    /\ fsExists' = fsExists \cup {SubDir}
    /\ fsMtime' = [fsMtime EXCEPT ![SubDir] = t, ![ShareDir] = t]
    /\ now' = t
    /\ fsOps' = fsOps + 1
    /\ UNCHANGED << fsKind, fsSize, response >>
    /\ UNCHANGED dbVars
    /\ UNCHANGED httpVars
    /\ UNCHANGED srvVars

\* environment: the sub directory is deleted with everything in it
RemoveDir ==
  \E t \in Clock :
    /\ ~response.answered /\ ~metadata.answered
    /\ fsOps < MaxFsOps
    /\ SubDir \in fsExists
    /\ fsExists' = fsExists \ {SubDir, FileC}
    /\ fsKind' = [fsKind EXCEPT ![FileC] = "junk"]
    /\ fsSize' = [fsSize EXCEPT ![FileC] = 0]
    /\ fsMtime' = [fsMtime EXCEPT ![SubDir] = 0, ![FileC] = 0, ![ShareDir] = t]
    /\ now' = t
    /\ fsOps' = fsOps + 1
    /\ UNCHANGED response
    /\ UNCHANGED dbVars
    /\ UNCHANGED httpVars
    /\ UNCHANGED srvVars

\* a Control Point sends Browse with BrowseFlag BrowseDirectChildren
Browse ==
  \E id \in ObjectIds, start_index \in 0..MaxIndex,
     requested_count \in 0..MaxCount, criteria \in Criteria :
    /\ running
    /\ ~response.answered /\ ~metadata.answered
    /\ \E r \in {browse(Db, id, start_index, requested_count, criteria)} :
         /\ media_folders' = r.db.media_folders
         /\ media_item' = r.db.media_item
         /\ latest_id' = r.db.latest_id
         /\ response' = r.response
    /\ UNCHANGED << db_file, running, boots >>
    /\ UNCHANGED fsVars
    /\ UNCHANGED httpVars
    /\ UNCHANGED srvVars

\* process_incoming has written the response, the connection is closed
Reply ==
  /\ response.answered
  /\ response' = NoResponse
  /\ UNCHANGED << db_file, running, boots, media_folders, media_item, latest_id >>
  /\ UNCHANGED fsVars
  /\ UNCHANGED httpVars
  /\ UNCHANGED srvVars

\* a Control Point sends Browse with BrowseFlag BrowseMetadata
BrowseMetadata ==
  \E id \in ObjectIds :
    /\ running
    /\ ~response.answered /\ ~metadata.answered
    /\ metadata' = browse_metadata(Db, id)
    /\ UNCHANGED << mutex, workers, conn, response, ssdp, run >>
    /\ UNCHANGED << fsVars, dbVars, httpVars >>

\* process_incoming has written that response, the connection is closed
ReplyMetadata ==
  /\ metadata.answered
  /\ metadata' = NoMetadata
  /\ UNCHANGED << mutex, workers, conn, response, ssdp, run >>
  /\ UNCHANGED << fsVars, dbVars, httpVars >>

Next ==
  \/ Browse
  \/ Reply
  \/ BrowseMetadata
  \/ ReplyMetadata
  \/ BootUp
  \/ Shutdown
  \/ WriteFile
  \/ RemoveFile
  \/ MakeDir
  \/ RemoveDir

Spec == Init /\ [][Next]_vars

\* --- send_file on its own: any file, any request
InitHttp ==
  /\ now = 1
  /\ fsExists = {ShareDir, FileA}
  /\ fsMtime = [p \in Nodes |-> IF p \in fsExists THEN 1 ELSE 0]
  /\ fsKind = [p \in Files |-> IF p \in fsExists THEN "audio" ELSE "junk"]
  /\ fsSize = [p \in Files |-> IF p \in fsExists THEN 1 ELSE 0]
  /\ fsOps = 0
  /\ db_file = NoIndex
  /\ running = FALSE
  /\ boots = 0
  /\ media_folders = << >>
  /\ media_item = << >>
  /\ latest_id = 1
  /\ response = NoResponse
  /\ http_file \in HttpFiles
  /\ http_request = NoRequest
  /\ http_sent = NothingSent
  /\ mutex = [holder |-> 0, poisoned |-> FALSE]
  /\ workers = << >>
  /\ conn = << >>
  /\ metadata = NoMetadata
  /\ ssdp = << >>
  /\ run = NoRun

\* a worker calls send_file for the request of a new connection
SendFile ==
  \E request \in HttpRequests :
    /\ http_sent = NothingSent
    /\ http_request' = request
    /\ http_sent' = send_file(request, http_file)
    /\ UNCHANGED http_file
    /\ UNCHANGED << db_file, running, boots, media_folders, media_item,
                    latest_id, response >>
    /\ UNCHANGED fsVars
    /\ UNCHANGED srvVars

\* environment: the file is replaced, the next request comes on a new connection
PutFile ==
  \E file \in HttpFiles :
    /\ file # http_file
    /\ http_file' = file
    /\ http_request' = NoRequest
    /\ http_sent' = NothingSent
    /\ UNCHANGED << db_file, running, boots, media_folders, media_item,
                    latest_id, response >>
    /\ UNCHANGED fsVars
    /\ UNCHANGED srvVars

NextHttp ==
  \/ SendFile
  \/ PutFile

SpecHttp == InitHttp /\ [][NextHttp]_vars

\* ---------------------------------------------- MediaServer: the workers
\* connections the listener accepts, one worker thread each
MaxWorkers == 2
Workers == 1..MaxWorkers

\* str::find(pat) : position of the first occurrence counted from 1, 0 for None
Find(text, pat) ==
  LET hits == { i \in 1..(Len(text) + 1) :
                  /\ i + Len(pat) - 1 <= Len(text)
                  /\ SubSeq(text, i, i + Len(pat) - 1) = pat }
  IN IF hits = {} THEN 0 ELSE CHOOSE i \in hits : \A j \in hits : i <= j

\* the texts the handlers look for
ConnectionPath == << "/", "c", "o", "n", "n", "e", "c", "t", "i", "o", "n", "/" >>
ContentPath == << "/", "c", "o", "n", "t", "e", "n", "t", "/" >>
StreamPath == << "/", "s", "t", "r", "e", "a", "m", "/" >>
IconPath == << "/", "f", "i", "l", "e", "s", "/", "i", "m", "a", "g", "e", "s", "/", "i", "c", "o", "n", ".", "p", "n", "g" >>
IconFile == << "var", "lib", "slms", "icon.png" >>
ConnectionDescription == << "G", "E", "T", " ", "/", "c", "o", "n", "n", "e", "c", "t", "i", "o", "n", "/", "d", "e", "s", "c", "r", "i", "p", "t", "i", "o", "n", ".", "x", "m", "l" >>
SubscribeConnection == << "S", "U", "B", "S", "C", "R", "I", "B", "E", " ", "/", "c", "o", "n", "n", "e", "c", "t", "i", "o", "n", "/", "c", "o", "n", "n", "e", "c", "t", "i", "o", "n", "_", "m", "a", "n", "a", "g", "e", "r" >>
ConnectionManagerXml == << "G", "E", "T", " ", "/", "c", "o", "n", "n", "e", "c", "t", "i", "o", "n", "/", "c", "o", "n", "n", "e", "c", "t", "i", "o", "n", "_", "m", "a", "n", "a", "g", "e", "r", ".", "x", "m", "l" >>
ContentDirectoryXml == << "G", "E", "T", " ", "/", "c", "o", "n", "n", "e", "c", "t", "i", "o", "n", "/", "c", "o", "n", "t", "e", "n", "t", "_", "d", "i", "r", "e", "c", "t", "o", "r", "y", ".", "x", "m", "l" >>
SubscribeContent == << "S", "U", "B", "S", "C", "R", "I", "B", "E", " ", "/", "c", "o", "n", "t", "e", "n", "t", "/", "c", "o", "n", "t", "e", "n", "t", "_", "d", "i", "r", "e", "c", "t", "o", "r", "y" >>

\* A request as a worker reads it: head is the text of the request line and the
\* blank line after it, action the SOAP action of its body ("" without a body),
\* flag the BrowseFlag and object_id the ObjectID of the body. A body is a SOAP
\* envelope: it is longer than every text above and holds none of the paths.
NoText == [head |-> << >>, action |-> "", flag |-> "", object_id |-> 0]

Get(target) == [NoText EXCEPT !.head = << "G", "E", "T", " " >> \o target \o << " ", "H", "T", "T", "P", "/", "1", ".", "1", "\r", "\n", "\r", "\n" >>]

Soap(action, flag) ==
  [head |-> << "P", "O", "S", "T", " ", "/", "c", "o", "n", "t", "e", "n", "t", "/", "c", "o", "n", "t", "r", "o", "l", " ", "H", "T", "T", "P", "/", "1", ".", "1", "\r", "\n", "\r", "\n" >>, action |-> action,
   flag |-> flag, object_id |-> 0]

Requests ==
  { Soap("u:Browse", "BrowseDirectChildren"),
    Soap("u:Search", "SearchDirectChildren"),
    Soap("u:Search", "SearchMetadata"),
    Get(<< "/", "c", "o", "n", "t", "e", "n", "t", "/", "x" >>),
    Get(<< "/", "s", "t", "r", "e", "a", "m", "/", "1" >>), Get(<< "/", "s", "t", "r", "e", "a", "m", "/", "2" >>), Get(<< "/", "s", "t", "r", "e", "a", "m", "/", "x" >>),
    [NoText EXCEPT !.head = << "G", "E", "T", " ", "/", "s", "t", "r", "e", "a", "m", "/", "1", "\r", "\n", "\r", "\n" >>],
    Get(<< "/", "c", "o", "n", "n", "e", "c", "t", "i", "o", "n", "/", "d", "e", "s", "c", "r", "i", "p", "t", "i", "o", "n", ".", "x", "m", "l" >>),
    Get(<< "/" >>) }

\* the state of a connection's socket: "reset" when the peer resets it while
\* the request is on its way (reads and writes fail from then on)
Sockets == {"ok", "reset"}

\* how much of a request has arrived when the socket is reset
Cuts(head) == {0} \cup { k \in 1..Len(head) : head[k] = "/" }

\* the texts handle_connection returns when a read fails
Prefixes ==
  UNION { { [NoText EXCEPT !.head = SubSeq(r.head, 1, k)] : k \in Cuts(r.head) } :
          r \in Requests }

\* whether the request holds at least n bytes
HasBytes(request, n) == request.action # "" \/ Len(request.head) >= n

\* &request[..n] == pat : "panic" when the request is shorter than the slice
SliceIs(request, pat) ==
  IF ~HasBytes(request, Len(pat)) THEN "panic"
  ELSE IF Len(request.head) >= Len(pat) /\ SubSeq(request.head, 1, Len(pat)) = pat
       THEN "yes"
  ELSE "no"

\* ConnectionManager::handle_request : the XML it returns ("" for an empty
\* String) or a panic
connection_handle_request(request) ==
  LET Try(pat, xml, rest) ==
        IF SliceIs(request, pat) = "panic" THEN [panic |-> TRUE, xml |-> ""]
        ELSE IF SliceIs(request, pat) = "yes" THEN [panic |-> FALSE, xml |-> xml]
        ELSE rest
  IN Try(ConnectionDescription, "root",
       Try(SubscribeConnection, "e:propertyset",
         Try(ConnectionManagerXml, "scpd",
           Try(ContentDirectoryXml, "scpd",
             IF request.action = "u:GetProtocolInfo"
             THEN [panic |-> FALSE, xml |-> "u:GetProtocolInfoResponse"]
             ELSE [panic |-> FALSE, xml |-> ""]))))

\* ContentDirectory::search and ::search_direct_children
search == ""

\* faulty variant: every Browse walks, whatever its BrowseFlag
content_handle_request_Walks(db, request) ==
  IF request.action = "u:Browse"
  THEN [panic |-> FALSE, xml |-> "u:BrowseResponse",
        db |-> browse(db, request.object_id, 0, 0, << >>).db]
  ELSE [panic |-> FALSE, xml |-> "", db |-> db]

\* ContentDirectory::handle_request : the XML it returns ("" for an empty
\* String) and the library afterwards, or a panic
content_handle_request(db, request) ==
  IF SliceIs(request, SubscribeContent) = "panic"
  THEN [panic |-> TRUE, xml |-> "", db |-> db]
  ELSE IF SliceIs(request, SubscribeContent) = "yes"
  THEN [panic |-> FALSE, xml |-> "e:propertyset", db |-> db]
  ELSE IF request.action = "u:GetSearchCapabilities"
  THEN [panic |-> FALSE, xml |-> "u:GetSearchCapabilitiesResponse", db |-> db]
  ELSE IF request.action = "u:GetSortCapabilities"
  THEN [panic |-> FALSE, xml |-> "u:GetSortCapabilitiesResponse", db |-> db]
  ELSE IF request.action = "u:Browse"
  THEN IF request.flag = "BrowseMetadata"
       THEN [panic |-> FALSE, xml |-> "u:BrowseResponse", db |-> db]
       ELSE [panic |-> FALSE, xml |-> "u:BrowseResponse",
             db |-> browse(db, request.object_id, 0, 0, << >>).db]
  ELSE IF request.action = "u:Search"
  THEN [panic |-> FALSE, xml |-> search, db |-> db]
  ELSE IF request.action = "u:GetSystemUpdateID"
  THEN [panic |-> FALSE, xml |-> "u:GetSystemUpdateIDResponse", db |-> db]
  ELSE [panic |-> FALSE, xml |-> "", db |-> db]

\* Item::get_mime_type
get_mime_type(item) ==
  LET ext == to_lowercase(item.file_extension)
  IN CASE item.media_type = "VIDEO" ->
            (CASE ext = << "m", "k", "v" >> -> "video/x-matroska"
               [] ext = << "a", "v", "i" >> -> "video/x-msvideo"
               [] ext \in {<< "m", "p", "e", "g" >>, << "m", "p", "g" >>, << "m", "p", "e" >>} -> "video/mpeg"
               [] ext \in {<< "m", "o", "v" >>, << "q", "t" >>} -> "video/quicktime"
               [] ext = << "m", "p", "4" >> -> "video/mp4"
               [] OTHER -> "video/*")
       [] item.media_type = "AUDIO" ->
            (CASE ext = << "m", "p", "3" >> -> "audio/mpeg"
               [] ext = << "w", "a", "v" >> -> "audio/x-wav"
               [] ext = << "f", "l", "a", "c" >> -> "audio/flac"
               [] OTHER -> "audio/*")
       [] item.media_type = "PICTURE" ->
            (CASE ext \in {<< "j", "p", "g" >>, << "j", "p", "e", "g" >>, << "j", "p", "e" >>} -> "image/jpeg"
               [] ext = << "p", "n", "g" >> -> "image/png"
               [] OTHER -> "image/*")
       [] OTHER -> "*"

\* what process_incoming makes of the text after "/stream/": the status it
\* answers at once (0 for none) and the id it looks up
stream_id(content) ==
  LET id_field == SubSeq(content.head, Find(content.head, StreamPath) + Len(StreamPath),
                         Len(content.head))
      blank == Find(id_field, << " " >>)
      id == ParseU64(SubSeq(id_field, 1, blank - 1))
  IN IF blank = 0 THEN [status |-> 400, id |-> 0]
     ELSE IF id = -1 THEN [status |-> 404, id |-> 0]
     ELSE [status |-> 0, id |-> id]

\* the Mutex around the library: the worker that holds its guard (0 for none)
\* and whether a thread has panicked while holding it
FreeMutex == [holder |-> 0, poisoned |-> FALSE]

\* faulty variant: the lock is handed out while another thread holds it
lock_Unguarded(m) == IF m.poisoned THEN "poisoned" ELSE "acquired"

\* Mutex::lock : it blocks while another thread holds the guard and returns
\* Err once the Mutex is poisoned
lock(m) ==
  IF m.holder # 0 THEN "blocked"
  ELSE IF m.poisoned THEN "poisoned"
  ELSE "acquired"

\* faulty variant: the guard lives until send_file has returned
guard_after_lookup_Kept(w, found) == IF found THEN w ELSE 0

\* the holder of the guard after the statement
\* "let item = match DB_MANAGER.lock().unwrap().get_item_direct(id) {..};" :
\* the temporary guard is dropped at the end of the statement
guard_after_lookup(w, found) == 0

\* a worker: where its thread is, its socket, the text handle_connection
\* returned, the status of the header it wrote (0 for none) and the arguments
\* of its send_file call
NoStream == [path |-> << >>, mime |-> ""]
NoWorker ==
  [pc |-> "free", socket |-> "ok", content |-> NoText, status |-> 0,
   file |-> NoStream]

\* the end of a loop turn of process_incoming: the response for xml
respond(wk, xml) ==
  IF xml # "" THEN { [wk EXCEPT !.pc = "keep_alive", !.status = 200] }
  ELSE { [wk EXCEPT !.pc = "done", !.status = 400] }
       \cup (IF wk.socket = "reset"
             THEN { [wk EXCEPT !.pc = "handle_connection", !.content = NoText] }
             ELSE {})

\* --- the listener and its workers, over the library of a booted server
InitWorkers ==
  /\ now = 1
  /\ fsExists = {ShareDir, FileA}
  /\ fsMtime = [p \in Nodes |-> IF p \in fsExists THEN 1 ELSE 0]
  /\ fsKind = [p \in Files |-> IF p \in fsExists THEN "audio" ELSE "junk"]
  /\ fsSize = [p \in Files |-> IF p \in fsExists THEN 1 ELSE 0]
  /\ fsOps = 0
  /\ \E r \in {boot_up(NewDb, NoIndex)} :
       /\ db_file = r.index
       /\ media_folders = r.db.media_folders
       /\ media_item = r.db.media_item
       /\ latest_id = r.db.latest_id
  /\ running = TRUE
  /\ boots = 1
  /\ response = NoResponse
  /\ http_file = NoFile
  /\ http_request = NoRequest
  /\ http_sent = NothingSent
  /\ mutex = FreeMutex
  /\ workers = [w \in Workers |-> NoWorker]
  /\ conn = << >>
  /\ metadata = NoMetadata
  /\ ssdp = << >>
  /\ run = Accepting

\* MediaServer::run : the listener accepts a connection and spawns its worker
Accept ==
  \E w \in Workers :
    /\ run.pc = "incoming"
    /\ workers[w].pc = "free"
    /\ \A v \in 1..(w - 1) : workers[v].pc # "free"
    /\ workers' = [workers EXCEPT ![w].pc = "handle_connection"]
    /\ UNCHANGED << mutex, conn, response, metadata, ssdp, run >>
    /\ UNCHANGED << fsVars, dbVars, httpVars >>

\* ConnectionManager::handle_connection returns: the request the client
\* sent, or what had arrived of one when a read failed (nothing once the socket
\* is reset)
HandleConnection(w) ==
  /\ workers[w].pc = "handle_connection"
  /\ \/ /\ workers[w].socket = "ok"
        /\ \E request \in Requests :
             workers' = [workers EXCEPT ![w].pc = "dispatch", ![w].content = request]
     \/ /\ workers[w].socket = "ok"
        /\ \E prefix \in Prefixes :
             workers' = [workers EXCEPT ![w].pc = "dispatch", ![w].socket = "reset",
                                        ![w].content = prefix]
     \/ /\ workers[w].socket = "reset"
        /\ workers' = [workers EXCEPT ![w].pc = "dispatch", ![w].content = NoText]
  /\ UNCHANGED << mutex, conn, response, metadata, ssdp, run >>
  /\ UNCHANGED << fsVars, dbVars, httpVars >>

\* process_incoming : the branch taken for the text read, up to the point
\* where the library is locked
Dispatch(w) ==
  /\ workers[w].pc = "dispatch"
  /\ LET wk == workers[w]
         c == wk.content
     IN IF Find(c.head, ConnectionPath) > 0
        THEN /\ \E nw \in (IF connection_handle_request(c).panic
                           THEN { [wk EXCEPT !.pc = "panicked"] }
                           ELSE respond(wk, connection_handle_request(c).xml)) :
                  workers' = [workers EXCEPT ![w] = nw]
             /\ UNCHANGED mutex
        ELSE IF Find(c.head, ContentPath) > 0
        THEN /\ lock(mutex) # "blocked"
             /\ IF lock(mutex) = "poisoned"
                THEN /\ workers' = [workers EXCEPT ![w].pc = "done", ![w].status = 500]
                     /\ UNCHANGED mutex
                ELSE /\ workers' = [workers EXCEPT ![w].pc = "handle_request"]
                     /\ mutex' = [mutex EXCEPT !.holder = w]
        ELSE IF Find(c.head, StreamPath) > 0
        THEN IF stream_id(c).status # 0
             THEN /\ workers' = [workers EXCEPT ![w].pc = "done",
                                                ![w].status = stream_id(c).status]
                  /\ UNCHANGED mutex
             ELSE /\ lock(mutex) # "blocked"
                  /\ IF lock(mutex) = "poisoned"
                     THEN /\ workers' = [workers EXCEPT ![w].pc = "panicked"]
                          /\ UNCHANGED mutex
                     ELSE /\ workers' = [workers EXCEPT ![w].pc = "get_item_direct"]
                          /\ mutex' = [mutex EXCEPT !.holder = w]
        ELSE IF Find(c.head, IconPath) > 0
        THEN /\ workers' = [workers EXCEPT ![w].pc = "send_file",
                              ![w].file = [path |-> IconFile, mime |-> "image/png"]]
             /\ UNCHANGED mutex
        ELSE /\ \E nw \in respond(wk, "") : workers' = [workers EXCEPT ![w] = nw]
             /\ UNCHANGED mutex
  /\ UNCHANGED << conn, response, metadata, ssdp, run >>
  /\ UNCHANGED << fsVars, dbVars, httpVars >>

\* process_incoming : ContentDirectory::handle_request under the guard, the
\* guard dropped, the response written
HandleRequest(w) ==
  /\ workers[w].pc = "handle_request"
  /\ \E r \in {content_handle_request(Db, workers[w].content)} :
       IF r.panic
       THEN /\ workers' = [workers EXCEPT ![w].pc = "panicked"]
            /\ mutex' = [holder |-> 0, poisoned |-> TRUE]
            /\ UNCHANGED << media_folders, media_item, latest_id >>
       ELSE /\ \E nw \in respond(workers[w], r.xml) :
                 workers' = [workers EXCEPT ![w] = nw]
            /\ mutex' = [mutex EXCEPT !.holder = 0]
            /\ media_folders' = r.db.media_folders
            /\ media_item' = r.db.media_item
            /\ latest_id' = r.db.latest_id
  /\ UNCHANGED << db_file, running, boots, conn, response, metadata, ssdp, run >>
  /\ UNCHANGED << fsVars, httpVars >>

\* process_incoming : get_item_direct under the guard
GetItemDirect(w) ==
  /\ workers[w].pc = "get_item_direct"
  /\ LET i == get_item_direct(Db, stream_id(workers[w].content).id)
     IN /\ workers' =
             IF i = 0
             THEN [workers EXCEPT ![w].pc = "done", ![w].status = 404]
             ELSE [workers EXCEPT ![w].pc = "send_file",
                     ![w].file = [path |-> media_item[i].file_path,
                                  mime |-> get_mime_type(media_item[i])]]
        /\ mutex' = [mutex EXCEPT !.holder = guard_after_lookup(w, i # 0)]
  /\ UNCHANGED << conn, response, metadata, ssdp, run >>
  /\ UNCHANGED << fsVars, dbVars, httpVars >>

\* process_incoming : send_file has returned, the worker ends
StreamFile(w) ==
  /\ workers[w].pc = "send_file"
  /\ workers' = [workers EXCEPT ![w].pc = "done"]
  /\ UNCHANGED << mutex, conn, response, metadata, ssdp, run >>
  /\ UNCHANGED << fsVars, dbVars, httpVars >>

NextWorkers ==
  \/ Accept
  \/ \E w \in Workers : HandleConnection(w)
  \/ \E w \in Workers : Dispatch(w)
  \/ \E w \in Workers : HandleRequest(w)
  \/ \E w \in Workers : GetItemDirect(w)
  \/ \E w \in Workers : StreamFile(w)

SpecWorkers == InitWorkers /\ [][NextWorkers]_vars

\* ------------------------------------------------------------ properties
AllIds(db) ==
  [i \in 1..Len(db.media_folders) |-> db.media_folders[i].id]
    \o [i \in 1..Len(db.media_item) |-> db.media_item[i].id]

FolderIds(db) == {db.media_folders[i].id : i \in 1..Len(db.media_folders)} \cup {0}

\* C1: no two distinct entries among all Folders and Items carry the same id
C1_UniqueIds ==
  LET ids == AllIds(Db)
  IN \A i, j \in 1..Len(ids) : i # j => ids[i] # ids[j]

C3_CounterAboveIds ==
  running => \A i \in 1..Len(AllIds(Db)) : AllIds(Db)[i] < latest_id


\* the request asks for "a-b" of a file that can be read
IsStartEnd(a, b) ==
  /\ http_sent # NothingSent
  /\ http_file.stat = "Ok" /\ http_file.open = "Ok"
  /\ http_request.range /\ http_request.crlf
  /\ http_request.bytes = FormatU64(a) \o << "-" >> \o FormatU64(b)

\* C4: for Range: bytes=a-b with 0 <= a <= b <= N send_file answers 206 with
\* Content-Length b - a and the body is the file bytes [a, b)
C4_RangeStartEnd ==
  \A a, b \in 0..MaxFileLen :
    (IsStartEnd(a, b) /\ a <= b /\ b <= Len(http_file.data))
      => /\ http_sent.headers = << 206 >>
         /\ http_sent.content_length = b - a
         /\ http_sent.body = SubSeq(http_file.data, a + 1, b)

\* C5: without a Range header send_file answers, for a file that exists and
\* can be read, 200 with Content-Length = file size and the whole file as body
C5_NoRangeWholeFile ==
  (/\ http_sent # NothingSent
   /\ ~http_request.range
   /\ http_file.stat = "Ok" /\ http_file.open = "Ok")
    => /\ http_sent.headers = << 200 >>
       /\ http_sent.content_length = Len(http_file.data)
       /\ http_sent.body = http_file.data

\* a file longer than the read buffer was sent for a request without Range
C5_Witness ==
  /\ http_sent # NothingSent
  /\ ~http_request.range
  /\ http_file.stat = "Ok" /\ http_file.open = "Ok"
  /\ Len(http_file.data) > BufferLen
  /\ http_sent.headers = << 200 >>

\* C6: for Range: bytes=a-b with b > N or a > b send_file answers 416 and
\* sends no body
C6_RangeNotSatisfiable ==
  \A a, b \in 0..(MaxFileLen + 1) :
    (IsStartEnd(a, b) /\ (b > Len(http_file.data) \/ a > b))
      => /\ http_sent.headers = << 416 >>
         /\ http_sent.body = << >>

\* the library entries whose parent is id, folders first
DirectChildren(db, id) ==
  LET IsChild(e) == e.parent_id = id
  IN SelectSeq(db.media_folders, IsChild) \o SelectSeq(db.media_item, IsChild)

\* the same, without the items whose file is newer than the library records
DirectChildrenProbed(db, id) ==
  LET IsChild(e) == e.parent_id = id
      IsProbedChild(e) == e.parent_id = id /\ ~ItemChanged(e)
  IN SelectSeq(db.media_folders, IsChild) \o SelectSeq(db.media_item, IsProbedChild)

Occurrences(seq, x) == Cardinality({i \in 1..Len(seq) : seq[i] = x})

IsPermutation(a, b) ==
  /\ Len(a) = Len(b)
  /\ \A i \in 1..Len(a) : Occurrences(a, a[i]) = Occurrences(b, a[i])

\* the server is up and between two requests: a Browse can be served now
CanBrowse == running /\ ~response.answered /\ ~metadata.answered

\* Browse of id changes nothing in the library (no item is re-probed)
BrowseKeepsLibrary(id) == browse(Db, id, 0, 0, << >>).db = Db

\* C7: the page Browse(id, 0, k, s) followed by the page Browse(id, k, 0, s)
\* is the listing Browse(id, 0, 0, s), for every page size k >= 1
C7_PagesConcatenate ==
  CanBrowse =>
    \A id \in ObjectIds, k \in 1..MaxCount, s \in Criteria :
      BrowseKeepsLibrary(id) =>
        browse(Db, id, 0, k, s).response.entries
            \o browse(Db, id, k, 0, s).response.entries
          = browse(Db, id, 0, 0, s).response.entries

\* C8: Browse(objId, 0, 0, s) returns every direct child folder and every
\* direct child item of objId exactly once, and nothing else
C8_AllDirectChildren ==
  CanBrowse =>
    \A id \in ObjectIds, s \in Criteria :
      LET r == browse(Db, id, 0, 0, s)
      IN IsPermutation(r.response.entries, DirectChildren(r.db, id))

\* C8 (amended): Browse(objId, 0, 0, s) returns exactly once every Folder whose
\* parent_id is objId and every Item whose parent_id is objId, except the
\* Items whose file changed after it was recorded and could not be probed
\* again (they keep the older recorded time), and nothing else
C8_AllProbedDirectChildren ==
  CanBrowse =>
    \A id \in ObjectIds, s \in Criteria :
      LET r == browse(Db, id, 0, 0, s)
      IN IsPermutation(r.response.entries, DirectChildrenProbed(r.db, id))

\* a complete listing with a folder and an item was returned while an item of
\* the same parent, changed on disk and not probable, was left out
C8_Witness ==
  /\ response.answered
  /\ response.number_returned = response.total_matches
  /\ \E i, j \in 1..Len(response.entries) :
       /\ IsFolder(response.entries[i])
       /\ ~IsFolder(response.entries[j])
       /\ response.entries[i].parent_id = response.entries[j].parent_id
       /\ \E k \in 1..Len(media_item) :
            /\ media_item[k].parent_id = response.entries[j].parent_id
            /\ ItemChanged(media_item[k])

\* C9: a second Browse(objId, 0, 0, s) right after the first, the file system
\* unchanged, returns the same entries in the same order and leaves the
\* library as the first call left it
C9_BrowseIdempotent ==
  CanBrowse =>
    \A id \in ObjectIds, s \in Criteria :
      LET first == browse(Db, id, 0, 0, s)
          second == browse(first.db, id, 0, 0, s)
      IN /\ second.response = first.response
         /\ second.db = first.db

\* a Browse has probed a changed item again and returned it
C9_Witness ==
  /\ response.answered
  /\ \E i \in 1..Len(response.entries) :
       /\ ~IsFolder(response.entries[i])
       /\ response.entries[i].last_modified > 1
       /\ Len(response.entries[i].media_tracks) > 1

\* C10: a Browse result holds no Item whose file does not exist
C10_NoVanishedItems ==
  response.answered =>
    \A i \in 1..Len(response.entries) :
      ~IsFolder(response.entries[i]) => does_exist(response.entries[i].file_path)

\* C11: when the file of a child Item of F was modified in a later second than
\* the library recorded and its size changed, the Item a Browse of F returns
\* for it carries the new file_size and the new last_modified
C11_ReprobeCarriesNewSize ==
  CanBrowse =>
    \A id \in ObjectIds, s \in Criteria :
      LET r == browse(Db, id, 0, 0, s).response
      IN \A i \in 1..Len(media_item) :
           (/\ media_item[i].parent_id = id
            /\ does_exist(media_item[i].file_path)
            /\ fsMtime[media_item[i].file_path] > media_item[i].last_modified
            /\ fsSize[media_item[i].file_path] # media_item[i].file_size)
             => \A j \in 1..Len(r.entries) :
                  (/\ ~IsFolder(r.entries[j])
                   /\ r.entries[j].file_path = media_item[i].file_path)
                    => /\ r.entries[j].file_size = fsSize[media_item[i].file_path]
                       /\ r.entries[j].last_modified = fsMtime[media_item[i].file_path]

\* in the first run of the server a Browse has returned an Item it probed
\* again (it holds the tracks of two probes), with the size the file got later
C11_Witness ==
  /\ response.answered
  /\ boots = 1
  /\ \E j \in 1..Len(response.entries) :
       /\ ~IsFolder(response.entries[j])
       /\ response.entries[j].file_size = 2
       /\ response.entries[j].last_modified > 1
       /\ Len(response.entries[j].media_tracks)
            > Len(ProbeTracks(fsKind[response.entries[j].file_path]))

\* ------------------------------ ConnectionManager::handle_connection
\* reads in which a client delivers one request
MaxReads == 2

Crlf == << "\r", "\n" >>
HeaderEnd == << "\r", "\n", "\r", "\n" >>
ContentLengthName == << "c", "o", "n", "t", "e", "n", "t", "-", "l", "e", "n", "g", "t", "h", ":" >>

\* str::trim
RECURSIVE trim_start(_)
trim_start(text) ==
  IF text # << >> /\ Head(text) \in {" ", "\t", "\r", "\n"} THEN trim_start(Tail(text))
  ELSE text

RECURSIVE trim_end(_)
trim_end(text) ==
  IF text # << >> /\ text[Len(text)] \in {" ", "\t", "\r", "\n"}
  THEN trim_end(SubSeq(text, 1, Len(text) - 1))
  ELSE text

trim(text) == trim_end(trim_start(text))

\* the requests of a client: the header up to the blank line, then as many
\* body bytes as its Content-Length says
ConnRequests ==
  { << "G", "E", "T", " ", "/", " ", "H", "T", "T", "P", "/", "1", ".", "1", "\r", "\n", "\r", "\n" >>,
    << "P", "O", "S", "T", " ", "/", "c", " ", "H", "T", "T", "P", "/", "1", ".", "1", "\r", "\n", "C", "o", "n", "t", "e", "n", "t", "-", "L", "e", "n", "g", "t", "h", ":", " ", "0", "\r", "\n", "\r", "\n" >>,
    << "P", "O", "S", "T", " ", "/", "c", " ", "H", "T", "T", "P", "/", "1", ".", "1", "\r", "\n", "C", "o", "n", "t", "e", "n", "t", "-", "L", "e", "n", "g", "t", "h", ":", " ", "2", "\r", "\n", "\r", "\n", "a", "b" >> }

\* the locals of handle_connection, the request on its way and how much of it
\* has been read; returned once the loop is left, result what is returned.
\* closed: the peer has closed the connection, every read() gives Ok(0); turn:
\* the parity of the turns the loop has made on the closed connection; done:
\* process_incoming has returned, the worker thread has ended
NoConn ==
  [request |-> << >>, arrived |-> 0, reads |-> 0, failed |-> FALSE,
   content |-> << >>, content_size |-> 0, content_size_expected |-> 0,
   header_received |-> FALSE, header_content |-> << >>,
   returned |-> FALSE, result |-> << >>,
   closed |-> FALSE, turn |-> 0, done |-> FALSE]

\* the end of handle_connection: header_content.push_str(&content)
leave(c) == [c EXCEPT !.returned = TRUE, !.result = c.header_content \o c.content]

\* "if position + 4 >= content.len() { break; }", position counted from 0
header_only(position, content) == position + 4 >= Len(content)

\* one turn of the loop of handle_connection after read() returned Ok with
\* the bytes tmp_content
read_turn(c, tmp_content) ==
  LET pushed == [c EXCEPT !.content = @ \o tmp_content]
      content == pushed.content
      position == Find(content, HeaderEnd) - 1
      lowered == to_lowercase(SubSeq(content, 1, position))
      with_header == [pushed EXCEPT !.header_content = SubSeq(content, 1, position + 4)]
      content_pos == Find(lowered, ContentLengthName) - 1
      after_name == SubSeq(lowered, content_pos + 17, Len(lowered))
      inner_pos == Find(after_name, Crlf) - 1
      value == IF inner_pos >= 0 THEN SubSeq(after_name, 1, inner_pos) ELSE after_name
      expected == ParseU64(trim(value))
      rest == IF position + 4 < Len(content)
              THEN SubSeq(content, position + 5, Len(content)) ELSE << >>
      body == [with_header EXCEPT !.header_received = TRUE,
                                  !.content_size_expected = expected,
                                  !.content = rest, !.content_size = Len(rest)]
  IN IF c.header_received
     THEN LET more == [pushed EXCEPT !.content_size = @ + Len(tmp_content)]
          IN IF more.content_size >= more.content_size_expected THEN leave(more)
             ELSE more
     ELSE IF position < 0 THEN pushed
     ELSE IF header_only(position, content) THEN leave(pushed)
     ELSE IF content_pos < 0 THEN leave(with_header)
     ELSE IF content_pos + 16 >= Len(lowered) THEN leave(with_header)
     ELSE IF expected = -1 THEN leave(with_header)
     ELSE IF body.content_size >= body.content_size_expected THEN leave(body)
     ELSE body

\* --- handle_connection on its own: any request, any segmentation
InitConn ==
  /\ now = 1
  /\ fsExists = {ShareDir, FileA}
  /\ fsMtime = [p \in Nodes |-> IF p \in fsExists THEN 1 ELSE 0]
  /\ fsKind = [p \in Files |-> IF p \in fsExists THEN "audio" ELSE "junk"]
  /\ fsSize = [p \in Files |-> IF p \in fsExists THEN 1 ELSE 0]
  /\ fsOps = 0
  /\ db_file = NoIndex
  /\ running = FALSE
  /\ boots = 0
  /\ media_folders = << >>
  /\ media_item = << >>
  /\ latest_id = 1
  /\ response = NoResponse
  /\ http_file = NoFile
  /\ http_request = NoRequest
  /\ http_sent = NothingSent
  /\ mutex = FreeMutex
  /\ workers = << >>
  /\ conn = NoConn
  /\ metadata = NoMetadata
  /\ ssdp = << >>
  /\ run = NoRun

\* a client connects and starts to send a request; handle_connection is called
Connect ==
  \E request \in ConnRequests :
    /\ conn = NoConn \/ conn.returned
    /\ conn' = [NoConn EXCEPT !.request = request]
    /\ UNCHANGED << fsVars, dbVars, httpVars, mutex, workers, response, metadata, ssdp, run >>

\* read() returns the next bytes of the request: any number of them, the rest
\* at the last read
Read ==
  \E n \in 1..(Len(conn.request) - conn.arrived) :
    /\ ~conn.returned
    /\ conn.reads + 1 = MaxReads => n = Len(conn.request) - conn.arrived
    /\ conn' = read_turn([conn EXCEPT !.arrived = @ + n, !.reads = @ + 1],
                         SubSeq(conn.request, conn.arrived + 1, conn.arrived + n))
    /\ UNCHANGED << fsVars, dbVars, httpVars, mutex, workers, response, metadata, ssdp, run >>

\* read() returns Err: the loop is left
ReadError ==
  /\ conn.request # << >>
  /\ ~conn.returned
  /\ conn' = leave([conn EXCEPT !.failed = TRUE])
  /\ UNCHANGED << fsVars, dbVars, httpVars, mutex, workers, response, metadata, ssdp, run >>

NextConn ==
  \/ Connect
  \/ Read
  \/ ReadError

SpecConn == InitConn /\ [][NextConn]_vars


\* ---------------------------------------------- load_database on its own
\* attributes of the index that an earlier run left unreadable
MaxCorrupt == 1

\* texts that are no number: the value read for an absent attribute, and a
\* text that holds no digit
Garbage == { << >>, << "x" >> }

\* the numeric attributes load_database parses of a <folder> and of an <item>
FolderNumbers == {"id", "parentId", "lastModified", "count"}
ItemNumbers == {"id", "parentId", "lastModified", "size"}

IsNumber(text) ==
  Len(text) > 0 /\ \A i \in 1..Len(text) : \E d \in 1..Len(Digit) : Digit[d] = text[i]

CorruptFolder(e) == \E a \in FolderNumbers : ~IsNumber(e[a])
CorruptItem(e) == \E a \in ItemNumbers : ~IsNumber(e[a])

Corrupted(index) ==
  Cardinality({ j \in 1..Len(index.folders) : CorruptFolder(index.folders[j]) })
    + Cardinality({ j \in 1..Len(index.items) : CorruptItem(index.items[j]) })

\* The index is the one boot_up of an earlier run wrote for the share; the
\* process is not running.
InitLoad ==
  /\ now = 1
  /\ fsExists \in Layouts
  /\ fsMtime = [p \in Nodes |-> IF p \in fsExists THEN 1 ELSE 0]
  /\ fsKind = [p \in Files |-> IF p \in fsExists THEN "audio" ELSE "junk"]
  /\ fsSize = [p \in Files |-> IF p \in fsExists THEN 1 ELSE 0]
  /\ fsOps = 0
  /\ \E r \in {boot_up(NewDb, NoIndex)} : db_file = r.index
  /\ running = FALSE
  /\ boots = 0
  /\ media_folders = << >>
  /\ media_item = << >>
  /\ latest_id = 1
  /\ response = NoResponse
  /\ http_file = NoFile
  /\ http_request = NoRequest
  /\ http_sent = NothingSent
  /\ mutex = FreeMutex
  /\ workers = << >>
  /\ conn = << >>
  /\ metadata = NoMetadata
  /\ ssdp = << >>
  /\ run = NoRun

\* environment: a numeric attribute of a <folder> element is damaged
CorruptFolderEntry ==
  \E j \in 1..Len(db_file.folders), a \in FolderNumbers, text \in Garbage :
    /\ ~running
    /\ Corrupted(db_file) < MaxCorrupt
    /\ db_file' = [db_file EXCEPT !.folders[j][a] = text]
    /\ UNCHANGED << running, boots, media_folders, media_item, latest_id >>
    /\ UNCHANGED << fsVars, httpVars, srvVars, response >>

\* environment: a numeric attribute of an <item> element is damaged
CorruptItemEntry ==
  \E j \in 1..Len(db_file.items), a \in ItemNumbers, text \in Garbage :
    /\ ~running
    /\ Corrupted(db_file) < MaxCorrupt
    /\ db_file' = [db_file EXCEPT !.items[j][a] = text]
    /\ UNCHANGED << running, boots, media_folders, media_item, latest_id >>
    /\ UNCHANGED << fsVars, httpVars, srvVars, response >>

\* load_database reads the index into the empty library
LoadDatabase ==
  /\ ~running
  /\ \E db \in {load_database(NewDb, db_file)} :
       /\ media_folders' = db.media_folders
       /\ media_item' = db.media_item
       /\ latest_id' = db.latest_id
  /\ running' = TRUE
  /\ boots' = boots + 1
  /\ UNCHANGED << db_file, fsVars, httpVars, srvVars, response >>

NextLoad ==
  \/ CorruptFolderEntry
  \/ CorruptItemEntry
  \/ RemoveDir
  \/ LoadDatabase

SpecLoad == InitLoad /\ [][NextLoad]_vars

MaxRounds == 2
MaxDatagrams == 2

\* seconds the notify thread sleeps between two alive rounds
AliveInterval == 180

\* ServerConfiguration: server_uuid, server_ip, server_port, server_tag
server_uuid == << "7" >>
server_ip == << "h" >>
server_port == << "8", "0" >>
server_tag == << "s", "l", "m", "s" >>

RootDevice == << "u", "p", "n", "p", ":", "r", "o", "o", "t", "d", "e", "v", "i", "c", "e" >>
MediaServer1 == << "u", "r", "n", ":", "s", "c", "h", "e", "m", "a", "s", "-", "u", "p", "n", "p", "-", "o", "r", "g", ":", "d", "e", "v", "i", "c", "e", ":", "M", "e", "d", "i", "a", "S", "e", "r", "v", "e", "r", ":", "1" >>
ContentDirectory1 == << "u", "r", "n", ":", "s", "c", "h", "e", "m", "a", "s", "-", "u", "p", "n", "p", "-", "o", "r", "g", ":", "s", "e", "r", "v", "i", "c", "e", ":", "C", "o", "n", "t", "e", "n", "t", "D", "i", "r", "e", "c", "t", "o", "r", "y", ":", "1" >>
ConnectionManager1 == << "u", "r", "n", ":", "s", "c", "h", "e", "m", "a", "s", "-", "u", "p", "n", "p", "-", "o", "r", "g", ":", "s", "e", "r", "v", "i", "c", "e", ":", "C", "o", "n", "n", "e", "c", "t", "i", "o", "n", "M", "a", "n", "a", "g", "e", "r", ":", "1" >>
MediaReceiverRegistrar1 == << "u", "r", "n", ":", "m", "i", "c", "r", "o", "s", "o", "f", "t", ".", "c", "o", "m", ":", "s", "e", "r", "v", "i", "c", "e", ":", "X", "_", "M", "S", "_", "M", "e", "d", "i", "a", "R", "e", "c", "e", "i", "v", "e", "r", "R", "e", "g", "i", "s", "t", "r", "a", "r", ":", "1" >>
Uuid(uuid) == << "u", "u", "i", "d", ":" >> \o uuid
Usn(uuid, nt) == << "u", "u", "i", "d", ":" >> \o uuid \o << ":", ":" >> \o nt

\* get_notify_package : the header fields of the NOTIFY text it formats
get_notify_package(nts, nt, usn, location, ip, port, tag) ==
  [start |-> << "N", "O", "T", "I", "F", "Y", " ", "*", " ", "H", "T", "T", "P", "/", "1", ".", "1" >>, server |-> tag,
   location |-> << "h", "t", "t", "p", ":", "/", "/" >> \o ip \o << ":" >> \o port \o << "/", "c", "o", "n", "n", "e", "c", "t", "i", "o", "n", "/" >> \o location,
   nts |-> << "s", "s", "d", "p", ":" >> \o nts, nt |-> nt, usn |-> usn]

\* get_search_response_package : the header fields of the 200 OK text
get_search_response_package(st, usn, location, ip, port, tag) ==
  [start |-> << "H", "T", "T", "P", "/", "1", ".", "1", " ", "2", "0", "0", " ", "O", "K" >>, server |-> tag,
   location |-> << "h", "t", "t", "p", ":", "/", "/" >> \o ip \o << ":" >> \o port \o << "/", "c", "o", "n", "n", "e", "c", "t", "i", "o", "n", "/" >> \o location,
   st |-> st, usn |-> usn]

\* send_notify_packages : the NT and USN of the packets of one alive round,
\* in the order of the send_to calls
alive_tuples(uuid) ==
  << [nt |-> RootDevice, usn |-> Usn(uuid, RootDevice)],
     [nt |-> Uuid(uuid), usn |-> Uuid(uuid)],
     [nt |-> MediaServer1, usn |-> Usn(uuid, MediaServer1)],
     [nt |-> ContentDirectory1, usn |-> Usn(uuid, ContentDirectory1)],
     [nt |-> ConnectionManager1, usn |-> Usn(uuid, ConnectionManager1)] >>

\* byebye : the NT and USN of its packets, in the order of the send_to calls
byebye_tuples(uuid) ==
  << [nt |-> RootDevice, usn |-> Usn(uuid, RootDevice)],
     [nt |-> Uuid(uuid), usn |-> Uuid(uuid)],
     [nt |-> MediaServer1, usn |-> Usn(uuid, MediaServer1)],
     [nt |-> ContentDirectory1, usn |-> << "U", "S", "N", ":", " " >> \o Usn(uuid, ContentDirectory1)],
     [nt |-> ConnectionManager1, usn |-> << "U", "S", "N", ":", " " >> \o Usn(uuid, ConnectionManager1)] >>

\* faulty variant: the uuid packet is sent before the rootdevice packet
alive_package_Swapped(k) ==
  LET j == IF k = 1 THEN 2 ELSE IF k = 2 THEN 1 ELSE k
  IN get_notify_package(<< "a", "l", "i", "v", "e" >>, alive_tuples(server_uuid)[j].nt,
                        alive_tuples(server_uuid)[j].usn, << "d", "e", "s", "c", "r", "i", "p", "t", "i", "o", "n", ".", "x", "m", "l" >>,
                        server_ip, server_port, server_tag)

\* send_notify_packages : the packet of the k-th send_to of a round
alive_package(k) ==
  get_notify_package(<< "a", "l", "i", "v", "e" >>, alive_tuples(server_uuid)[k].nt,
                     alive_tuples(server_uuid)[k].usn, << "d", "e", "s", "c", "r", "i", "p", "t", "i", "o", "n", ".", "x", "m", "l" >>,
                     server_ip, server_port, server_tag)

\* byebye : the packet of its k-th send_to
byebye_package(k) ==
  get_notify_package(<< "b", "y", "e", "b", "y", "e" >>, byebye_tuples(server_uuid)[k].nt,
                     byebye_tuples(server_uuid)[k].usn, << "d", "e", "s", "c", "r", "i", "p", "t", "i", "o", "n", ".", "x", "m", "l" >>,
                     server_ip, server_port, server_tag)

\* send_search_response : the messages it sends to the receiver, none when
\* message stays empty
send_search_response(request, uuid, ip, port, tag) ==
  LET Answer(st) ==
        << get_search_response_package(st, Usn(uuid, st), << "d", "e", "s", "c", "r", "i", "p", "t", "i", "o", "n", ".", "x", "m", "l" >>,
                                       ip, port, tag) >>
  IN IF Find(request, << "s", "s", "d", "p", ":", "a", "l", "l" >>) > 0 THEN Answer(MediaServer1)
     ELSE IF Find(request, << "u", "p", "n", "p", ":", "r", "o", "o", "t", "d", "e", "v", "i", "c", "e" >>) > 0 THEN Answer(RootDevice)
     ELSE IF Find(request, << "u", "r", "n", ":", "s", "c", "h", "e", "m", "a", "s", "-", "u", "p", "n", "p", "-", "o", "r", "g", ":", "s", "e", "r", "v", "i", "c", "e", ":", "C", "o", "n", "t", "e", "n", "t", "D", "i", "r", "e", "c", "t", "o", "r", "y" >>) > 0
     THEN Answer(ContentDirectory1)
     ELSE IF Find(request, << "u", "r", "n", ":", "s", "c", "h", "e", "m", "a", "s", "-", "u", "p", "n", "p", "-", "o", "r", "g", ":", "s", "e", "r", "v", "i", "c", "e", ":", "C", "o", "n", "n", "e", "c", "t", "i", "o", "n", "M", "a", "n", "a", "g", "e", "r" >>) > 0
     THEN Answer(ConnectionManager1)
     ELSE IF Find(request, << "u", "r", "n", ":", "m", "i", "c", "r", "o", "s", "o", "f", "t", ".", "c", "o", "m", ":", "s", "e", "r", "v", "i", "c", "e", ":", "X", "_", "M", "S", "_", "M", "e", "d", "i", "a", "R", "e", "c", "e", "i", "v", "e", "r", "R", "e", "g", "i", "s", "t", "r", "a", "r" >>) > 0
     THEN Answer(MediaReceiverRegistrar1)
     ELSE IF Find(request, << "u", "r", "n", ":", "s", "c", "h", "e", "m", "a", "s", "-", "u", "p", "n", "p", "-", "o", "r", "g", ":", "d", "e", "v", "i", "c", "e", ":", "M", "e", "d", "i", "a", "S", "e", "r", "v", "e", "r" >>) > 0
     THEN Answer(MediaServer1)
     ELSE << >>

\* the M-SEARCH datagram of a Control Point that looks for st
MSearch(st) ==
  << "M", "-", "S", "E", "A", "R", "C", "H", " ", "*", " ", "H", "T", "T", "P", "/", "1", ".", "1", "\r", "\n", "H", "O", "S", "T", ":", " ", "2", "3", "9", ".", "2", "5", "5", ".", "2", "5", "5", ".", "2", "5", "0", ":", "1", "9", "0", "0", "\r", "\n", "M", "A", "N", ":", " ", "\"", "s", "s", "d", "p", ":", "d", "i", "s", "c", "o", "v", "e", "r", "\"", "\r", "\n", "M", "X", ":", " ", "1", "\r", "\n", "S", "T", ":", " " >>
    \o st \o << "\r", "\n", "\r", "\n" >>

\* the search targets of the Control Points
SearchTargets ==
  { RootDevice, Uuid(server_uuid), MediaServer1, ContentDirectory1,
    ConnectionManager1, << "s", "s", "d", "p", ":", "a", "l", "l" >> }

\* The datagrams that arrive on port 1900: searches, the NOTIFY of another
\* device, an empty datagram, and bytes that are no UTF-8 text. utf8 tells
\* whether str::from_utf8 accepts the payload.
Datagrams ==
  { [utf8 |-> TRUE, payload |-> MSearch(st)] : st \in SearchTargets }
    \cup { [utf8 |-> TRUE, payload |-> << "N", "O", "T", "I", "F", "Y", " ", "*", " ", "H", "T", "T", "P", "/", "1", ".", "1", "\r", "\n", "N", "T", "S", ":", " ", "s", "s", "d", "p", ":", "a", "l", "i", "v", "e", "\r", "\n", "\r", "\n" >>],
           [utf8 |-> TRUE, payload |-> << >>],
           [utf8 |-> FALSE, payload |-> << "?" >>] }

Senders == {"cp1", "cp2"}

NoDatagram == [utf8 |-> TRUE, payload |-> << >>, from |-> ""]

\* The state after discover() returned Ok: the notify thread is about to send
\* the first packet of its first round (next = 1; 0 while it sleeps, -1 once
\* it has ended), the responder blocks in recv_from. round holds the packets
\* of the alive round under way, clock the seconds since discover, round_end
\* the clock at the last packet of the last finished round. datagram is the one
\* waiting in the socket (from = "" for none), answer what was sent for the
\* last datagram received, byebye the packets byebye() sent.
SsdpUp ==
  [next |-> 1, round |-> << >>, rounds |-> 1, clock |-> 0, round_end |-> 0,
   responder |-> "recv_from", datagram |-> NoDatagram,
   datagrams |-> 0, answer |-> << >>, byebye |-> << >>, down |-> FALSE]

InitSsdp ==
  /\ now = 1
  /\ fsExists = {ShareDir, FileA}
  /\ fsMtime = [p \in Nodes |-> IF p \in fsExists THEN 1 ELSE 0]
  /\ fsKind = [p \in Files |-> IF p \in fsExists THEN "audio" ELSE "junk"]
  /\ fsSize = [p \in Files |-> IF p \in fsExists THEN 1 ELSE 0]
  /\ fsOps = 0
  /\ db_file = NoIndex
  /\ running = FALSE
  /\ boots = 0
  /\ media_folders = << >>
  /\ media_item = << >>
  /\ latest_id = 1
  /\ response = NoResponse
  /\ http_file = NoFile
  /\ http_request = NoRequest
  /\ http_sent = NothingSent
  /\ mutex = FreeMutex
  /\ workers = << >>
  /\ conn = << >>
  /\ metadata = NoMetadata
  /\ ssdp = SsdpUp
  /\ run = NoRun

OthersUnchanged ==
  UNCHANGED << fsVars, dbVars, httpVars, mutex, workers, conn, metadata, response, run >>

\* send_notify_packages : one send_to of the round succeeds
NotifySend ==
  /\ ssdp.next \in 1..Len(alive_tuples(server_uuid))
  /\ ssdp' = [ssdp EXCEPT
                !.round = Append(ssdp.round, alive_package(ssdp.next)),
                !.round_end = IF ssdp.next = Len(alive_tuples(server_uuid))
                              THEN ssdp.clock ELSE ssdp.round_end,
                !.next = IF ssdp.next = Len(alive_tuples(server_uuid)) THEN 0
                         ELSE ssdp.next + 1]
  /\ OthersUnchanged

\* send_notify_packages : a send_to fails, the thread returns
NotifyFail ==
  /\ ssdp.next \in 1..Len(alive_tuples(server_uuid))
  /\ ssdp' = [ssdp EXCEPT !.next = -1]
  /\ OthersUnchanged

\* send_notify_packages : thread::sleep returns, the next round starts
NotifyWake ==
  /\ ssdp.next = 0
  /\ ssdp.rounds < MaxRounds
  /\ ssdp' = [ssdp EXCEPT !.next = 1, !.round = << >>, !.rounds = ssdp.rounds + 1,
                          !.clock = ssdp.clock + AliveInterval]
  /\ OthersUnchanged

\* environment: a datagram arrives in the socket
Arrive ==
  \E d \in Datagrams, from \in Senders :
    /\ ssdp.datagram.from = ""
    /\ ssdp.datagrams < MaxDatagrams
    /\ ssdp' = [ssdp EXCEPT !.datagram = [utf8 |-> d.utf8, payload |-> d.payload,
                                          from |-> from],
                            !.datagrams = ssdp.datagrams + 1]
    /\ OthersUnchanged

\* discover, responder thread : one turn of its loop, recv_from having
\* returned the datagram
Respond ==
  /\ ssdp.responder = "recv_from"
  /\ ssdp.datagram.from # ""
  /\ LET d == ssdp.datagram
         taken == [ssdp EXCEPT !.datagram = NoDatagram, !.answer = << >>]
     IN ssdp' =
          IF Len(d.payload) = 0 THEN taken
          ELSE IF ~d.utf8 THEN [taken EXCEPT !.responder = "ended"]
          ELSE IF Find(d.payload, << "M", "-", "S", "E", "A", "R", "C", "H", " ", "*" >>) = 0 THEN taken
          ELSE [taken EXCEPT !.answer =
                  [i \in 1..Len(send_search_response(d.payload, server_uuid, server_ip,
                                                     server_port, server_tag)) |->
                     [to |-> d.from,
                      message |-> send_search_response(d.payload, server_uuid,
                                    server_ip, server_port, server_tag)[i]]]]
  /\ OthersUnchanged

\* MediaServer::run : the accept loop has ended, byebye() sends its packets
\* until a send_to fails
ByeBye ==
  \E sent \in 0..Len(byebye_tuples(server_uuid)) :
    /\ ~ssdp.down
    /\ ssdp' = [ssdp EXCEPT !.down = TRUE,
                            !.byebye = [k \in 1..sent |-> byebye_package(k)]]
    /\ OthersUnchanged

NextSsdp ==
  \/ NotifySend
  \/ NotifyFail
  \/ NotifyWake
  \/ Arrive
  \/ Respond
  \/ ByeBye

SpecSsdp == InitSsdp /\ [][NextSsdp]_vars

\* the responder thread runs whenever a datagram waits for it
SpecSsdpLive == InitSsdp /\ [][NextSsdp]_vars /\ WF_vars(Respond)

\* ------------------------------------------------- SSDPServer: properties
\* the Respond step that takes the datagram payload sent by from
Responds(payload, from) ==
  /\ Respond
  /\ ssdp.datagram.payload = payload
  /\ ssdp.datagram.from = from

\* the 200 OK that carries the ST and USN of an announced tuple
OkFor(st, usn) ==
  [start |-> << "H", "T", "T", "P", "/", "1", ".", "1", " ", "2", "0", "0", " ", "O", "K" >>, server |-> server_tag,
   location |-> << "h", "t", "t", "p", ":", "/", "/" >> \o server_ip \o << ":" >> \o server_port
                  \o << "/", "c", "o", "n", "n", "e", "c", "t", "i", "o", "n", "/", "d", "e", "s", "c", "r", "i", "p", "t", "i", "o", "n", ".", "x", "m", "l" >>,
   st |-> st, usn |-> usn]

\* C21: an M-SEARCH whose ST names one of the five announced tuples is
\* answered with exactly one 200 OK, sent to the sender of the search, that
\* carries the ST and USN of that tuple; an M-SEARCH for ssdp:all is answered
\* with the MediaServer tuple.
C21_SearchAnsweredPerTuple ==
  [][\A from \in Senders :
       /\ \A k \in 1..Len(alive_tuples(server_uuid)) :
            Responds(MSearch(alive_tuples(server_uuid)[k].nt), from)
              => ssdp'.answer =
                   << [to |-> from,
                       message |-> OkFor(alive_tuples(server_uuid)[k].nt,
                                         alive_tuples(server_uuid)[k].usn)] >>
       /\ Responds(MSearch(<< "s", "s", "d", "p", ":", "a", "l", "l" >>), from)
            => ssdp'.answer =
                 << [to |-> from,
                     message |-> OkFor(MediaServer1,
                                       Usn(server_uuid, MediaServer1))] >>]_vars

\* C22: every M-SEARCH for upnp:rootdevice that arrives after discover()
\* succeeded is eventually answered, to its sender, with a 200 OK whose USN is
\* uuid:{uuid}::upnp:rootdevice and whose LOCATION is
\* http://{ip}:{port}/connection/description.xml, whatever datagrams the
\* responder loop received before it.
C22_RootSearchEventuallyAnswered ==
  \A from \in Senders :
    (ssdp.datagram.from = from /\ ssdp.datagram.payload = MSearch(RootDevice))
      ~> (ssdp.answer =
            << [to |-> from,
                message |-> OkFor(RootDevice, Usn(server_uuid, RootDevice))] >>)

\* the NT of the packets of an alive round, in the announced order
FixedOrder ==
  << RootDevice, Uuid(server_uuid), MediaServer1, ContentDirectory1,
     ConnectionManager1 >>

\* C23: the NOTIFY packets of every alive round are sent in the fixed order
\* rootdevice, uuid, MediaServer, ContentDirectory, ConnectionManager, one
\* per tuple, and a round starts only when the round before has sent its last
\* packet and 180 seconds have passed since.
C23_AliveRoundsInOrder ==
  [][/\ Len(ssdp'.round) <= Len(FixedOrder)
     /\ \A k \in 1..Len(ssdp'.round) :
          /\ ssdp'.round[k].nt = FixedOrder[k]
          /\ ssdp'.round[k].usn = alive_tuples(server_uuid)[k].usn
          /\ ssdp'.round[k].nts = << "s", "s", "d", "p", ":", "a", "l", "i", "v", "e" >>
     /\ ssdp'.rounds > ssdp.rounds
          => /\ Len(ssdp.round) = Len(FixedOrder)
             /\ ssdp'.round = << >>
             /\ ssdp'.clock >= ssdp.round_end + 180]_vars

\* a second round has sent all its packets
C23_Witness ==
  /\ ssdp.rounds = 2
  /\ Len(ssdp.round) = Len(FixedOrder)
  /\ ssdp.clock >= 180

\* C24: byebye(), no send_to failing, sends exactly one ssdp:byebye NOTIFY for
\* each of the five tuples, with the NT and USN the alive round announced.
C24_ByeByeMatchesAlive ==
  (ssdp.down /\ Len(ssdp.byebye) = Len(byebye_tuples(server_uuid)))
    => \A k \in 1..Len(alive_tuples(server_uuid)) :
         Cardinality({ j \in 1..Len(ssdp.byebye) :
                         /\ ssdp.byebye[j].nts = << "s", "s", "d", "p", ":", "b", "y", "e", "b", "y", "e" >>
                         /\ ssdp.byebye[j].nt = alive_package(k).nt
                         /\ ssdp.byebye[j].usn = alive_package(k).usn }) = 1

\* --------------------------------------------------- workers and the Mutex
\* the branch of process_incoming a text takes
Route(content) ==
  IF Find(content.head, ConnectionPath) > 0 THEN "connection"
  ELSE IF Find(content.head, ContentPath) > 0 THEN "content"
  ELSE IF Find(content.head, StreamPath) > 0 THEN "stream"
  ELSE IF Find(content.head, IconPath) > 0 THEN "icon"
  ELSE "none"

\* the worker has left the library for good: its thread has ended or waits
\* for the next request of its connection
Finished(w) == workers[w].pc \in {"done", "panicked", "keep_alive"}

\* the worker found the Mutex poisoned: 500 for /content/, a panic at
\* lock().unwrap() for /stream/
FoundPoisoned(w) ==
  \/ workers[w].status = 500
  \/ workers[w].pc = "panicked" /\ Route(workers[w].content) = "stream"

\* C12: when no socket fails, a worker that panics while it holds the library
\* Mutex leaves the lock usable: no later /content/ request is refused with
\* 500 and no later /stream/ worker dies at the lock
C12_PanicLeavesLockUsable ==
  (\A v \in Workers : workers[v].socket = "ok")
    => \A w \in Workers : ~FoundPoisoned(w)

\* C13: a worker inside a library operation (ContentDirectory::handle_request
\* or get_item_direct) holds the guard of the Mutex, so no two workers are
\* inside the library at once
C13_LibraryUnderMutex ==
  \A w \in Workers :
    workers[w].pc \in {"handle_request", "get_item_direct"} => mutex.holder = w

\* one worker is inside the library while another one waits for the lock
C13_Witness ==
  \E w, v \in Workers :
    /\ w # v
    /\ workers[w].pc \in {"handle_request", "get_item_direct"}
    /\ workers[v].pc = "dispatch"
    /\ Route(workers[v].content) \in {"content", "stream"}
    /\ lock(mutex) = "blocked"

\* C14: a worker inside send_file does not hold the guard of the Mutex
C14_StreamWithoutLock ==
  \A w \in Workers : workers[w].pc = "send_file" => mutex.holder # w

\* one worker streams an Item of the library while another worker holds the
\* guard
C14_Witness ==
  \E w, v \in Workers :
    /\ workers[w].pc = "send_file"
    /\ Route(workers[w].content) = "stream"
    /\ workers[w].file.path = FileA
    /\ mutex.holder = v

\* C15: when every request that arrived whole on a sound socket is long enough
\* for the handlers, the failure of other sockets changes no answer: no worker
\* on a sound socket finds the Mutex poisoned
C15_SocketErrorIsLocal ==
  (\A v \in Workers :
     workers[v].socket = "ok" => HasBytes(workers[v].content, Len(SubscribeContent))
                                  \/ workers[v].pc \in {"free", "handle_connection"})
    => \A w \in Workers : workers[w].socket = "ok" => ~FoundPoisoned(w)

\* the text of the id of a /stream/ request: what follows "/stream/" up to the
\* first blank, or up to the end
StreamIdText(content) ==
  LET id_field == SubSeq(content.head, Find(content.head, StreamPath) + Len(StreamPath),
                         Len(content.head))
      blank == Find(id_field, << " " >>)
  IN IF blank = 0 THEN id_field ELSE SubSeq(id_field, 1, blank - 1)

\* C17: a /stream/{id} request that arrived whole, the Mutex being sound, is
\* answered 400 when the id is no u64 and 404 when no Item has that id;
\* otherwise send_file is called with the path and the mime type of the Item
C17_StreamStatus ==
  \A w \in Workers :
    (/\ workers[w].pc \in {"done", "send_file"}
     /\ workers[w].socket = "ok"
     /\ Route(workers[w].content) = "stream")
      => LET id == ParseU64(StreamIdText(workers[w].content))
             i == get_item_direct(Db, id)
         IN IF id = -1 THEN workers[w].status = 400
            ELSE IF i = 0 THEN workers[w].status = 404
            ELSE /\ workers[w].status = 0
                 /\ workers[w].file = [path |-> media_item[i].file_path,
                                       mime |-> get_mime_type(media_item[i])]

\* C20: a Search or SearchMetadata request to /content/ that was handled under
\* a sound Mutex is answered 200 OK
C20_SearchAnswered ==
  \A w \in Workers :
    (/\ Finished(w)
     /\ Route(workers[w].content) = "content"
     /\ workers[w].content.action = "u:Search"
     /\ ~mutex.poisoned)
      => workers[w].status = 200

\* C16: when no read fails, handle_connection returns the complete request,
\* the header up to the blank line and every body byte of its Content-Length,
\* however the bytes were split over the reads
C16_ReturnsWholeRequest ==
  (conn.returned /\ ~conn.failed) => conn.result = conn.request

\* C18: BrowseMetadata of ObjectID x returns one object, NumberReturned and
\* TotalMatches being 1, when x is the id of a Folder or of an Item of the
\* library: the Folder when there is one, else the Item. It returns no object,
\* both numbers being 0, when x is no such id
C18_MetadataOneObject ==
  CanBrowse =>
    \A x \in ObjectIds :
      LET r == browse_metadata(Db, x)
          folder == \E i \in 1..Len(media_folders) : media_folders[i].id = x
          item == \E i \in 1..Len(media_item) : media_item[i].id = x
      IN IF folder \/ item
         THEN /\ Len(r.entries) = 1
              /\ r.entries[1].id = x
              /\ IsFolder(r.entries[1]) = folder
              /\ r.number_returned = 1
              /\ r.total_matches = 1
         ELSE /\ r.entries = << >>
              /\ r.number_returned = 0
              /\ r.total_matches = 0

\* a BrowseMetadata for the id of an Item has been answered with that Item,
\* the library holding folders too
C18_Witness ==
  /\ metadata.answered
  /\ metadata.number_returned = 1
  /\ metadata.total_matches = 1
  /\ ~IsFolder(metadata.entries[1])
  /\ metadata.entries[1].id = metadata.object_id
  /\ Len(media_folders) > 0

\* C19: BrowseDirectChildren returns at most RequestedCount objects when
\* RequestedCount > 0, and TotalMatches is the number of child folders plus
\* child items of ObjectID whatever StartingIndex and RequestedCount are
C19_TotalMatchesAllChildren ==
  CanBrowse =>
    \A id \in ObjectIds, start_index \in 0..MaxIndex, requested_count \in 0..MaxCount :
      LET r == browse(Db, id, start_index, requested_count, << >>)
      IN /\ requested_count > 0 => r.response.number_returned <= requested_count
         /\ r.response.number_returned = Len(r.response.entries)
         /\ r.response.total_matches = Len(DirectChildren(r.db, id))

\* C19 (amended): BrowseDirectChildren returns at most RequestedCount objects
\* when RequestedCount > 0, and TotalMatches is, whatever StartingIndex and
\* RequestedCount are, the number of Folders whose parent_id is ObjectID plus
\* the number of Items whose parent_id is ObjectID, the Items left out because
\* their changed file could not be probed again not being counted
C19_TotalMatchesProbedChildren ==
  CanBrowse =>
    \A id \in ObjectIds, start_index \in 0..MaxIndex, requested_count \in 0..MaxCount :
      LET r == browse(Db, id, start_index, requested_count, << >>)
      IN /\ requested_count > 0 => r.response.number_returned <= requested_count
         /\ r.response.number_returned = Len(r.response.entries)
         /\ r.response.total_matches = Len(DirectChildrenProbed(r.db, id))

\* a page of one object was returned out of a listing of several, while an
\* Item of the same parent, changed on disk and not probable, is not counted
C19_Witness ==
  /\ response.answered
  /\ response.number_returned = 1
  /\ response.total_matches > 1
  /\ \E k \in 1..Len(media_item) :
       /\ media_item[k].parent_id = response.entries[1].parent_id
       /\ ItemChanged(media_item[k])
       /\ response.total_matches
            < Len(DirectChildren(Db, response.entries[1].parent_id))


\* ------------------------------------------ the library and the file system
\* C25: get_folder_from_parent, called for any folder id, returns no Folder
\* whose directory does not exist at the time of the call; a deleted directory
\* is no longer listed under its parent.
C25_NoDeletedFolderListed ==
  CanBrowse =>
    \A id \in ObjectIds :
      \A i \in 1..Len(get_folder_from_parent(Db, id).res) :
        does_exist(get_folder_from_parent(Db, id).res[i].path)


HasTrack(item, type) ==
  \E i \in 1..Len(item.media_tracks) : item.media_tracks[i] = type

\* C29: every Item of the library, also after it has been probed again in
\* place, has media_type VIDEO exactly when one of its tracks is a VIDEO
\* track, otherwise AUDIO exactly when one of its tracks is an AUDIO track,
\* otherwise PICTURE; and it has at least one recognized track.
C29_MediaTypeFollowsTracks ==
  \A i \in 1..Len(media_item) :
    /\ Len(media_item[i].media_tracks) > 0
    /\ media_item[i].media_type =
         IF HasTrack(media_item[i], "VIDEO") THEN "VIDEO"
         ELSE IF HasTrack(media_item[i], "AUDIO") THEN "AUDIO"
         ELSE "PICTURE"


\* a path with a component that begins with "."
UnderHidden(path) ==
  \E k \in 1..Len(path) : Len(path[k]) > 0 /\ path[k][1] = "."

\* C30: in every library state no Folder title and no Item file_name begins
\* with "."; a hidden directory is not added and nothing below it is.
C30_NothingHiddenInLibrary ==
  /\ \A i \in 1..Len(media_folders) :
       /\ media_folders[i].title[1] # "."
       /\ ~UnderHidden(media_folders[i].path)
  /\ \A i \in 1..Len(media_item) :
       /\ media_item[i].file_name[1] # "."
       /\ ~UnderHidden(media_item[i].file_path)

\* the share holds a hidden directory with a media file in it and a hidden
\* media file, and the library has been built from it
C30_Witness ==
  /\ running
  /\ {HiddenDir, FileE, FileDot} \subseteq fsExists
  /\ fsKind[FileE] = "audio"
  /\ fsKind[FileDot] = "audio"
  /\ Len(media_folders) > 0
  /\ Len(media_item) > 0


\* the library that holds nothing but item
OnlyItem(item) == [NewDb EXCEPT !.media_item = << item >>]

\* C28: an Item of the library whose file has not changed since it was
\* probed, written by save_database and read back by load_database, comes
\* back identical in every field.
C28_ItemSurvivesSaveAndLoad ==
  \A i \in 1..Len(media_item) :
    (does_exist(media_item[i].file_path)
       /\ get_last_modified(media_item[i].file_path) = media_item[i].last_modified)
      => load_database(NewDb, save_database(OnlyItem(media_item[i]), TRUE)).media_item
           = << media_item[i] >>


\* the <folder> / <item> elements of the index, as the id and the path each
\* of them records
IndexFolders(index) ==
  [j \in 1..Len(index.folders) |->
     << ParseU64(index.folders[j].id), index.folders[j].path >>]

IndexItems(index) ==
  [j \in 1..Len(index.items) |->
     << ParseU64(index.items[j].id), index.items[j].path >>]

\* C27: the index that boot_up writes with save_database(true) holds exactly
\* the Folders of the library whose path exists and exactly the Items of the
\* library whose path exists and whose modification time on disk is not
\* greater than the recorded last_modified.
C27_IndexHoldsLiveUnchanged ==
  [][BootUp =>
       LET folders == SelectSeq(media_folders', LAMBDA f : f.path \in fsExists)
           items == SelectSeq(media_item',
                      LAMBDA it : /\ it.file_path \in fsExists
                                  /\ fsMtime[it.file_path] <= it.last_modified)
       IN /\ db_file'.present
          /\ IndexFolders(db_file') =
               [j \in 1..Len(folders) |-> << folders[j].id, folders[j].path >>]
          /\ IndexItems(db_file') =
               [j \in 1..Len(items) |-> << items[j].id, items[j].file_path >>]]_vars

\* boot_up has left an Item out of the index because its file changed after
\* it was recorded
C27_Witness ==
  /\ running
  /\ db_file.present
  /\ \E i \in 1..Len(media_item) :
       /\ media_item[i].file_path \in fsExists
       /\ fsMtime[media_item[i].file_path] > media_item[i].last_modified
       /\ \A j \in 1..Len(db_file.items) :
            db_file.items[j].path # media_item[i].file_path


\* ------------------------------------------------ send_file: the responses
\* C31: when the stat of the file fails send_file answers 404 for NotFound,
\* 403 for PermissionDenied and 500 for every other error, as one header with
\* Content-Length 0 and without any body byte.
C31_StatErrorHeaderOnly ==
  (http_sent # NothingSent /\ http_file.stat # "Ok")
    => /\ http_sent.headers =
            << IF http_file.stat = "NotFound" THEN 404
               ELSE IF http_file.stat = "PermissionDenied" THEN 403
               ELSE 500 >>
       /\ http_sent.content_length = 0
       /\ http_sent.body = << >>

\* a request for a file whose stat is refused has been answered
C31_Witness ==
  /\ http_sent # NothingSent
  /\ http_file.stat = "PermissionDenied"
  /\ http_sent.headers = << 403 >>

\* C37: every 200 or 206 response of send_file, the file staying readable,
\* carries as many body bytes as the Content-Length of its header announces,
\* whatever the form of the Range header.
C37_BodyMatchesContentLength ==
  (/\ http_sent # NothingSent
   /\ http_file.stat = "Ok" /\ http_file.open = "Ok"
   /\ http_sent.headers \in { << 200 >>, << 206 >> })
    => Len(http_sent.body) = http_sent.content_length

\* C38: send_file writes at most one status line on the stream of a request,
\* also when the file can no longer be opened after its stat succeeded.
C38_OneStatusLine ==
  Len(http_sent.headers) <= 1

\* ---------------------------------------------------------------------------
\* MediaServer::run : from the configuration to the accept loop
\* ---------------------------------------------------------------------------

\* the steps of run that can fail, in the order run takes them: the
\* configuration, the loggers, daemonize, the library, the TCP listener, the
\* SSDP socket, discover()
RunSteps == << "parse", "logger", "daemonize", "database", "bind", "ssdp_new", "discover" >>

\* what can go wrong in a step: discover() gives Err for set_multicast_loop_v4,
\* for the address that does not parse, for join_multicast_v4 and for try_clone
Failures(pc) ==
  IF pc = "discover" THEN {"multicast_loop", "ip_parse", "multicast_join", "try_clone"}
  ELSE {pc}

\* faulty variant: run goes on to the next step whatever the outcome
run_next_Ignore(pc, ok) ==
  IF pc = "discover" THEN "incoming"
  ELSE RunSteps[(CHOOSE k \in 1..Len(RunSteps) : RunSteps[k] = pc) + 1]

\* where run goes after a step: on, or out by return (a panic for the loggers)
run_next(pc, ok) ==
  IF ~ok THEN "returned"
  ELSE IF pc = "discover" THEN "incoming"
  ELSE RunSteps[(CHOOSE k \in 1..Len(RunSteps) : RunSteps[k] = pc) + 1]

InitStart ==
  /\ now = 1
  /\ fsExists \in Layouts
  /\ fsMtime = [p \in Nodes |-> IF p \in fsExists THEN 1 ELSE 0]
  /\ fsKind = [p \in Files |-> IF p \in fsExists THEN "audio" ELSE "junk"]
  /\ fsSize = [p \in Files |-> IF p \in fsExists THEN 1 ELSE 0]
  /\ fsOps = 0
  /\ db_file = NoIndex
  /\ running = FALSE
  /\ boots = 0
  /\ media_folders = << >>
  /\ media_item = << >>
  /\ latest_id = 0
  /\ response = NoResponse
  /\ http_file = NoFile
  /\ http_request = NoRequest
  /\ http_sent = NothingSent
  /\ mutex = FreeMutex
  /\ workers = [w \in Workers |-> NoWorker]
  /\ conn = << >>
  /\ metadata = NoMetadata
  /\ ssdp = << >>
  /\ run = [pc |-> "parse", failed |-> "none"]

\* run : a step other than the library and discover(), done or failed
RunStep ==
  \E ok \in BOOLEAN :
    /\ run.pc \in {"parse", "logger", "daemonize", "bind", "ssdp_new"}
    /\ run' = [pc |-> run_next(run.pc, ok),
               failed |-> IF ok THEN run.failed ELSE run.pc]
    /\ UNCHANGED << fsVars, dbVars, httpVars, response >>
    /\ UNCHANGED << mutex, workers, conn, metadata, ssdp >>

\* run : load() and boot_up() under the Mutex, which nobody has poisoned yet
RunDatabase ==
  /\ run.pc = "database"
  /\ \E r \in {boot_up(NewDb, db_file)} :
       /\ media_folders' = r.db.media_folders
       /\ media_item' = r.db.media_item
       /\ latest_id' = r.db.latest_id
       /\ db_file' = r.index
  /\ running' = TRUE
  /\ boots' = boots + 1
  /\ run' = [run EXCEPT !.pc = run_next(run.pc, TRUE)]
  /\ UNCHANGED << fsVars, httpVars, response >>
  /\ UNCHANGED << mutex, workers, conn, metadata, ssdp >>

\* run : discover() starts the two SSDP threads
RunDiscover ==
  /\ run.pc = "discover"
  /\ run' = [run EXCEPT !.pc = run_next(run.pc, TRUE)]
  /\ ssdp' = SsdpUp
  /\ UNCHANGED << fsVars, dbVars, httpVars, response >>
  /\ UNCHANGED << mutex, workers, conn, metadata >>

\* run : discover() returns Err
RunDiscoverFails ==
  \E f \in Failures("discover") :
    /\ run.pc = "discover"
    /\ run' = [pc |-> run_next(run.pc, FALSE), failed |-> f]
    /\ UNCHANGED << fsVars, dbVars, httpVars, response >>
    /\ UNCHANGED << mutex, workers, conn, metadata, ssdp >>

\* run : incoming() gives an Err, the loop breaks and byebye() sends its
\* packets until a send_to fails
AcceptFails ==
  \E sent \in 0..Len(byebye_tuples(server_uuid)) :
    /\ run.pc = "incoming"
    /\ run' = [pc |-> "returned", failed |-> "incoming"]
    /\ ssdp' = [ssdp EXCEPT !.down = TRUE,
                            !.byebye = [k \in 1..sent |-> byebye_package(k)]]
    /\ UNCHANGED << fsVars, dbVars, httpVars, response >>
    /\ UNCHANGED << mutex, workers, conn, metadata >>

NextStart ==
  \/ RunStep
  \/ RunDatabase
  \/ RunDiscover
  \/ RunDiscoverFails
  \/ Accept
  \/ AcceptFails

SpecStart == InitStart /\ [][NextStart]_vars

\* the failures of run the claim names
StartupFailures == {"parse", "bind", "ssdp_new", "multicast_join"}

\* C32: once the configuration load, the TCP bind, the SSDP socket bind or the
\* multicast join has failed, run has stopped: no connection has been
\* accepted, no worker has been spawned, and none is afterwards.
C32_StartupFailureStopsRun ==
  run.failed \in StartupFailures
    => /\ run.pc = "returned"
       /\ \A w \in Workers : workers[w].pc = "free"
       /\ ~ENABLED Accept

C32_Witness ==
  /\ run.failed = "multicast_join"
  /\ run.pc = "returned"
  /\ running

\* ---------------------------------------------------------------------------
\* the library across a restart
\* ---------------------------------------------------------------------------

\* the Folders and Items of a library, each with its id
Records(db) ==
  { << "folder", db.media_folders[i].path, db.media_folders[i].id >> :
      i \in 1..Len(db.media_folders) }
  \cup { << "item", db.media_item[i].file_path, db.media_item[i].id >> :
           i \in 1..Len(db.media_item) }

\* the Folders and Items an index file holds, each with its id
IndexRecords(index) ==
  { << "folder", index.folders[j].path, ParseU64(index.folders[j].id) >> :
      j \in 1..Len(index.folders) }
  \cup { << "item", index.items[j].path, ParseU64(index.items[j].id) >> :
           j \in 1..Len(index.items) }

FolderIdOf(dir) ==
  IF \E i \in 1..Len(media_folders) : media_folders[i].path = dir
  THEN media_folders[CHOOSE i \in 1..Len(media_folders) :
                       /\ media_folders[i].path = dir
                       /\ \A j \in 1..(i - 1) : media_folders[j].path # dir].id
  ELSE -1

\* C34: every Item and every sub-Folder that parse_folder found in directory
\* D has as parent_id the id of the Folder record whose path is D.
C34_ParentIsDirectoryRecord ==
  /\ \A i \in 1..Len(media_item) :
       media_item[i].parent_id = FolderIdOf(ParentOf(media_item[i].file_path))
  /\ \A i \in 1..Len(media_folders) :
       media_folders[i].path # ShareDir
         => media_folders[i].parent_id = FolderIdOf(ParentOf(media_folders[i].path))

\* C35: when a step probes an Item again in place (the Item stays where it
\* is, its last_modified moves forward), its tracks afterwards are the tracks
\* the probe reports for the file as it is then.
C35_ReprobeReplacesTracks ==
  [][\A i \in 1..Len(media_item) :
       (/\ i <= Len(media_item')
        /\ media_item'[i].file_path = media_item[i].file_path
        /\ media_item'[i].last_modified > media_item[i].last_modified)
         => media_item'[i].media_tracks
              = ProbeTracks(fsKind'[media_item[i].file_path])]_vars

\* C36: no two Folders of the library have the same path and no two Items
\* the same file_path.
C36_PathsUnique ==
  /\ \A i, j \in 1..Len(media_folders) :
       media_folders[i].path = media_folders[j].path => i = j
  /\ \A i, j \in 1..Len(media_item) :
       media_item[i].file_path = media_item[j].file_path => i = j

\* a Browse has walked the share again after a file was added to it: the
\* Folder has the newer time, the new Item is in the library beside the old
C36_Witness ==
  /\ running
  /\ boots = 1
  /\ response.answered
  /\ Len(media_item) >= 2
  /\ \E i \in 1..Len(media_folders) :
       /\ media_folders[i].path = ShareDir
       /\ media_folders[i].last_modified > 1

\* ---------------------------------------------------------------------------
\* a connection worker whose peer closes the connection
\* ---------------------------------------------------------------------------

InitClose ==
  /\ now = 1
  /\ fsExists = {ShareDir, FileA}
  /\ fsMtime = [p \in Nodes |-> IF p \in fsExists THEN 1 ELSE 0]
  /\ fsKind = [p \in Files |-> IF p \in fsExists THEN "audio" ELSE "junk"]
  /\ fsSize = [p \in Files |-> IF p \in fsExists THEN 1 ELSE 0]
  /\ fsOps = 0
  /\ db_file = NoIndex
  /\ running = FALSE
  /\ boots = 0
  /\ media_folders = << >>
  /\ media_item = << >>
  /\ latest_id = 1
  /\ response = NoResponse
  /\ http_file = NoFile
  /\ http_request = NoRequest
  /\ http_sent = NothingSent
  /\ mutex = FreeMutex
  /\ workers = << >>
  /\ conn \in { [NoConn EXCEPT !.request = request] : request \in ConnRequests }
  /\ metadata = NoMetadata
  /\ ssdp = << >>
  /\ run = Accepting

\* the peer closes the connection: what it has not sent yet never arrives, and
\* once the bytes on their way are read every read() returns Ok(0)
PeerClose ==
  /\ ~conn.closed
  /\ ~conn.done
  /\ conn' = [conn EXCEPT !.closed = TRUE,
                          !.request = SubSeq(@, 1, conn.arrived)]
  /\ UNCHANGED << fsVars, dbVars, httpVars, mutex, workers, response, metadata, ssdp, run >>

\* handle_connection : read() returns Ok(0), the loop makes its turn with no
\* bytes
ReadZero ==
  /\ conn.closed
  /\ ~conn.returned
  /\ conn.arrived = Len(conn.request)
  /\ conn' = read_turn([conn EXCEPT !.turn = 1 - @], << >>)
  /\ UNCHANGED << fsVars, dbVars, httpVars, mutex, workers, response, metadata, ssdp, run >>

\* process_incoming after handle_connection has returned: it sends the
\* response and loops (keep-alive; also "continue" when peer_addr() fails), or
\* it sends an error or a file and returns. When it loops, handle_connection
\* starts afresh; a peer that is still there may send its next request.
ProcessIncoming ==
  \E keep_alive \in BOOLEAN :
    \E next \in (IF conn.closed THEN {<< >>} ELSE ConnRequests) :
      /\ conn.returned
      /\ ~conn.done
      /\ conn' = IF keep_alive
                 THEN [NoConn EXCEPT !.request = next, !.closed = conn.closed]
                 ELSE [conn EXCEPT !.done = TRUE]
      /\ UNCHANGED << fsVars, dbVars, httpVars, mutex, workers, response, metadata, ssdp, run >>

NextClose ==
  \/ Read
  \/ PeerClose
  \/ ReadZero
  \/ ProcessIncoming

SpecClose == InitClose /\ [][NextClose]_vars

\* the worker thread is scheduled: it makes its next turn of the read loop and
\* its next step of process_incoming
SpecCloseLive == SpecClose /\ WF_vars(ReadZero) /\ WF_vars(ProcessIncoming)

\* C39: once the peer has closed the connection the worker eventually
\* terminates: process_incoming returns.
C39_WorkerEndsAfterClose == conn.closed ~> conn.done

\* ---------------------------------------------------------------------------
\* which requests change the library
\* ---------------------------------------------------------------------------

\* the requests to the ContentDirectory other than BrowseDirectChildren
ReadingRequests ==
  { [Soap("u:Browse", "BrowseMetadata") EXCEPT !.object_id = id] : id \in ObjectIds }
  \cup { Soap("u:Search", "SearchDirectChildren"),
         Soap("u:Search", "SearchMetadata"),
         Soap("u:GetSearchCapabilities", ""),
         Soap("u:GetSortCapabilities", ""),
         Soap("u:GetSystemUpdateID", ""),
         [NoText EXCEPT !.head = SubscribeContent] }

\* the Folder a Browse of id looks up has a directory newer than recorded
StaleFolder(id) ==
  \E i \in 1..Len(media_folders) :
    /\ media_folders[i].id = id
    /\ \A j \in 1..(i - 1) : media_folders[j].id # id
    /\ media_folders[i].last_modified < fsMtime[media_folders[i].path]

\* an Item below id has a file newer than recorded
StaleItem(id) ==
  \E i \in 1..Len(media_item) :
    /\ media_item[i].parent_id = id
    /\ media_item[i].file_path \in fsExists
    /\ media_item[i].last_modified < fsMtime[media_item[i].file_path]

\* C40: BrowseMetadata, Search, GetSearchCapabilities, GetSortCapabilities,
\* GetSystemUpdateID and SUBSCRIBE leave folders, items and the id counter as
\* they are (requests to /connection/ and /stream/ are served by
\* connection_handle_request and get_item_direct, which are handed no library
\* to change); BrowseDirectChildren changes them only when the folder it asks
\* for is stale or an Item below it is.
C40_OnlyStaleBrowseChangesLibrary ==
  running =>
    /\ \A request \in ReadingRequests :
         content_handle_request(Db, request).db = Db
    /\ \A id \in ObjectIds :
         content_handle_request(
             Db, [Soap("u:Browse", "BrowseDirectChildren") EXCEPT !.object_id = id]).db # Db
           => StaleFolder(id) \/ StaleItem(id)

\* a BrowseMetadata has been answered for a Folder that is stale, and a
\* BrowseDirectChildren of that Folder would change the library
C40_Witness ==
  /\ running
  /\ metadata.answered
  /\ metadata.number_returned = 1
  /\ StaleFolder(metadata.object_id)
  /\ browse(Db, metadata.object_id, 0, 0, << >>).db # Db

====
